---------------------------- MODULE Spec2Model ----------------------------
(***************************************************************************)
(* A model of src/core/common/ligraUtils.h: the lock-free single-word      *)
(* updates (CAS, writeMin, writeAdd, fetch_and_add), remDuplicates, and    *)
(* the blocked reduce / scan / pack / filter of namespace sequence.        *)
(*                                                                         *)
(* Every subsystem has its own variables and its own specification; a      *)
(* specification leaves the variables of the other subsystems at their     *)
(* idle values.                                                            *)
(***************************************************************************)
EXTENDS Integers, Sequences, FiniteSets, TLC

VARIABLES
    \* ---- one shared word and the callers updating it (writeMin, writeAdd, ...)
    mem_a,      \* *a, the shared word
    v0,         \* the value *a held before any caller started
    op,         \* op[p]: the function caller p runs
    b,          \* b[p]: caller p's argument b
    pc,         \* pc[p]: "read" (at the load of *a), "cas", "done"
    c,          \* c[p]: writeMin's local c
    oldV,       \* oldV[p]: writeAdd's local oldV
    newV,       \* newV[p]: writeAdd's local newV
    r,          \* r[p]: the value the call returns (writeMin: bool, fetch_and_add: E)
    prior,      \* prior[p]: the value *a held just before caller p's successful CAS
    fails,      \* fails[p]: the compare-and-swaps of caller p that failed so far
    stale,      \* stale[p]: caller p is between its load and its compare-and-swap, and
                \* the compare-and-swap of another caller succeeded since that load
    \* ---- one call of CAS<ET>(ptr, oldv, newv)
    cas,        \* [size: sizeof(ET), build: how the build loads a bool, ptr: *ptr,
                \*  before: *ptr at the call, oldv, newv, at: "call" | "returned" | "aborted",
                \*  ret: the value returned]

    \* ---- one call of pbbs::new_array_no_init<E>(n, touch_pages)
    alloc,      \* [n, size: sizeof(E), touch: touch_pages, bytes, r: the pointer,
                \*  at: "call" | "touch" | "returned" | "exit", todo: the iterations of
                \*  the touching loop that have not run, touched: the byte indices written]
    m,          \* the number of entries
    keys,       \* keys[i] = get_key(i), i in 0..m-1
    keys0,      \* the keys on entry
    flags,      \* flags[k], k in 0..n-1
    ipc,        \* ipc[i]: where iteration i of the two parallel loops is:
                \* "p1" (at the test of line 506), "p1cas" (at the CAS of line 507),
                \* "p1done", "p2write" (at line 515 or 517), "done"
    won,        \* won[i]: the outcome of iteration i's test flags[key] == i (line 514)
    flagLog,    \* the compare-and-swaps executed on flags, in order:
                \* [i: the entry, key: the slot, ok: its result]
    remW,       \* the stores of the call: <<"flags", slot, i>> and <<"keys", entry, i>>,
                \* i the iteration that made the store
    \* ---- one call of sequence::reduce, scan, pack or filter
    fn,         \* the function called: "reduce", "scan", "pack", "filter"
    arg,        \* its scalar arguments (s, e, f, zero, inclusive, back, ...)
    In,         \* the array behind the accessor g / f, as it was at the call
    Out,        \* the destination array Out
    Fl,         \* the flags array Fl (bytes holding 0 or 1)
    Sums,       \* the block sums array Sums of the blocked case
    phase,      \* where the calling thread is: "enter" (filter called), "flags" (filter's
                \* loop, line 414), "call" (reduce, scan, pack called), "fold" (the first
                \* blocked_for), "write" (the second), "returned"
    pending,    \* the iterations of the running parallel loop that have not run yet
    ret,        \* the value returned
    wlog,       \* the writes of the running call to Out: <<block, index>>
    rlog,       \* the reads of the running call through the accessor (<<"g", index>>)
                \* and of the flags (<<"Fl", index>>)
    \* ---- the recursion of reduce, scan and pack
    rec         \* the call stack: the function and the range length of each
                \* activation, the outermost first

atomVars == <<mem_a, v0, op, b, pc, c, oldV, newV, r, prior, fails, stale>>
remVars == <<m, keys, keys0, flags, ipc, won, flagLog, remW>>
seqVars == <<fn, arg, In, Out, Fl, Sums, phase, pending, ret, wlog, rlog>>

vars == <<atomVars, cas, alloc, rec, remVars, seqVars>>

-----------------------------------------------------------------------------
(* Bounds of the model *)

NProcs == 3      \* concurrent callers on the one word
MaxVal == 2      \* values proposed / initially stored are in 0..MaxVal
MaxByte == 3     \* the element CAS is called on holds a value in 0..MaxByte
MaxM == 3        \* remDuplicates: at most MaxM entries
NKeys == 2       \* remDuplicates: n, the length of flags; keys are in 0..NKeys-1
MaxN == 9        \* reduce, scan, pack, filter: arrays of at most MaxN elements
SCAN_LOG_BSIZE == 1   \* _SCAN_LOG_BSIZE (10 in the source), scaled down with the arrays
SUM_INTS == 1    \* the ints sumFlagsSerial adds up per batch (128 in the source), scaled down
LongN == 17      \* pack: the length of the long, periodic flags arrays
MaxFilterN == 7  \* filter: arrays of at most MaxFilterN elements
MaxEmptyLen == 2 \* empty ranges: inside arrays of at most MaxEmptyLen elements
SizeBits == 8    \* the bits of size_t (64 in the source), scaled down
TouchLog == 6    \* the stride of new_array_no_init's touching loop is 2^TouchLog (21 in
                 \* the source), scaled down with size_t
IdxBits == 4     \* the bits of an unsigned intT (32 or 64 in the source), scaled down
MaxStart == 2    \* blocked_for: ranges that start at 0..MaxStart
MaxBsize == 3    \* blocked_for: block sizes 1..MaxBsize
MaxRecN == 33    \* the recursion: ranges of at most MaxRecN elements

Procs == 1..NProcs
Vals == 0..MaxVal

-----------------------------------------------------------------------------
(* CAS: lines 429-443, and pbbs::CAS_GCC: lines 630-632 *)

\* a store that does not compare: the update of a caller that read before it is lost
SyncBoolCAS_Blind(cur, oldv, newv) == [aborted |-> FALSE, ret |-> TRUE, mem |-> newv]

\* __sync_bool_compare_and_swap on one memory cell holding cur
SyncBoolCAS(cur, oldv, newv) ==
    IF cur = oldv THEN [aborted |-> FALSE, ret |-> TRUE, mem |-> newv]
                  ELSE [aborted |-> FALSE, ret |-> FALSE, mem |-> cur]

\* *((bool *)&x) for a one-byte x: reading a byte that holds neither 0 nor 1
\* through a bool lvalue is undefined; a build either passes the byte on as it
\* is ("raw"), keeps its low bit ("mask"), or tests it against zero ("norm").
BoolLoads == {"raw", "mask", "norm"}

LoadBool(build, x) ==
    CASE build = "raw"  -> x
      [] build = "mask" -> x % 2
      [] build = "norm" -> IF x = 0 THEN 0 ELSE 1

\* CAS<ET>(ptr, oldv, newv) with sizeof(ET) = size and *ptr = cur
CAS(size, build, cur, oldv, newv) ==
    IF size = 1 THEN SyncBoolCAS(cur, LoadBool(build, oldv), LoadBool(build, newv))
    ELSE IF size = 4 THEN SyncBoolCAS(cur, oldv, newv)
    ELSE IF size = 8 THEN SyncBoolCAS(cur, oldv, newv)
    ELSE [aborted |-> TRUE, ret |-> FALSE, mem |-> cur]

CAS_GCC(cur, oldv, newv) == SyncBoolCAS(cur, oldv, newv)

\* the element widths CAS is instantiated with: char/bool, short, int, long, 16 bytes
Sizes == {1, 2, 4, 8, 16}

CasIdle == [size |-> 0, build |-> "raw", ptr |-> 0, before |-> 0, oldv |-> 0,
            newv |-> 0, at |-> "idle", ret |-> FALSE]

\* no call of new_array_no_init
AllocIdle == [n |-> 0, size |-> 0, touch |-> FALSE, bytes |-> 0, r |-> 0, at |-> "idle",
              todo |-> {}, touched |-> {}]

\* no call on the stack
RecIdle == [fn |-> "none", n |-> 0, stack |-> << >>, deepest |-> 0]

\* one call of CAS: it returns, or prints "CAS bad length" and aborts
CallCAS ==
    /\ cas.at = "call"
    /\ LET res == CAS(cas.size, cas.build, cas.ptr, cas.oldv, cas.newv) IN
         cas' = [cas EXCEPT !.ptr = res.mem, !.ret = res.ret,
                            !.at = IF res.aborted THEN "aborted" ELSE "returned"]
    /\ UNCHANGED <<atomVars, alloc, rec, remVars, seqVars>>

\* no caller on the shared word
AtomIdle ==
    /\ mem_a = 0 /\ v0 = 0
    /\ op = [p \in Procs |-> "none"]
    /\ b = [p \in Procs |-> 0]
    /\ pc = [p \in Procs |-> "done"]
    /\ c = [p \in Procs |-> 0]
    /\ oldV = [p \in Procs |-> 0]
    /\ newV = [p \in Procs |-> 0]
    /\ r = [p \in Procs |-> FALSE]
    /\ prior = [p \in Procs |-> 0]
    /\ fails = [p \in Procs |-> 0]
    /\ stale = [p \in Procs |-> FALSE]

\* no call of remDuplicates
RemIdle ==
    /\ m = 0
    /\ keys = << >> /\ keys0 = << >> /\ flags = << >>
    /\ ipc = << >> /\ won = << >> /\ flagLog = << >> /\ remW = {}

\* no call of reduce, scan, pack or filter
SeqIdle ==
    /\ fn = "none" /\ arg = << >>
    /\ In = << >> /\ Out = << >> /\ Fl = << >> /\ Sums = << >>
    /\ phase = "returned" /\ pending = {} /\ ret = << >> /\ wlog = {} /\ rlog = {}

InitCAS ==
    /\ cas \in [size : Sizes, build : BoolLoads, ptr : 0..MaxByte, before : 0..MaxByte,
                 oldv : 0..MaxByte, newv : 0..MaxByte, at : {"call"}, ret : {FALSE}]
    /\ cas.before = cas.ptr
    /\ alloc = AllocIdle /\ rec = RecIdle
    /\ AtomIdle
    /\ RemIdle
    /\ SeqIdle

NextCAS == CallCAS

SpecCAS == InitCAS /\ [][NextCAS]_vars

-----------------------------------------------------------------------------
(* writeMin: lines 445-452, pbbs::write_min: lines 651-658 *)

MinOps == {"writeMin", "write_min"}

\* sizeof(ET) of the shared word: uintE
WordSize == 4

\* the comparison the wrong way round
MinWants_Reversed(o, bb, cc) == cc < bb

\* the loop test that also lets an equal value through
MinWants_OrEqual(o, bb, cc) == cc >= bb

\* the loop test on the value just read: c > b, resp. less(b, c) with less = <
MinWants(o, bb, cc) == IF o = "writeMin" THEN cc > bb ELSE bb < cc

\* the compare-and-swap the caller's function uses
CallerCAS(o, cur, oldv, newv) ==
    IF o \in {"writeMin", "writeAdd"} THEN CAS(WordSize, "raw", cur, oldv, newv)
                                      ELSE CAS_GCC(cur, oldv, newv)

\* a loop that tries its compare-and-swap again without loading the word again
AfterCAS_NoReload(ok) == IF ok THEN "done" ELSE "cas"

\* do { c = *a; ... } while (... !CAS(...)): a caller whose compare-and-swap
\* failed goes round the loop and loads the word again
AfterCAS(ok) == IF ok THEN "done" ELSE "read"

\* stale after the compare-and-swap of caller p: when it succeeded, the value
\* every caller now at its compare-and-swap has loaded is older than a success
Staled(p, ok) ==
    [q \in Procs |-> IF q = p THEN FALSE ELSE stale[q] \/ (ok /\ pc[q] = "cas")]

\* c = *a; and the test c > b of the loop condition
MinRead(p) ==
    /\ op[p] \in MinOps
    /\ pc[p] = "read"
    /\ c' = [c EXCEPT ![p] = mem_a]
    /\ pc' = [pc EXCEPT ![p] = IF MinWants(op[p], b[p], mem_a) THEN "cas" ELSE "done"]
    /\ UNCHANGED <<mem_a, v0, op, b, oldV, newV, r, prior, fails, stale>>
    /\ UNCHANGED <<cas, alloc, rec, remVars, seqVars>>

\* r = CAS(a, c, b); the loop ends when it succeeded
MinCAS(p) ==
    /\ op[p] \in MinOps
    /\ pc[p] = "cas"
    /\ LET res == CallerCAS(op[p], mem_a, c[p], b[p]) IN
         /\ mem_a' = res.mem
         /\ r' = [r EXCEPT ![p] = res.ret]
         /\ pc' = [pc EXCEPT ![p] = AfterCAS(res.ret)]
         /\ prior' = [prior EXCEPT ![p] = IF res.ret THEN mem_a ELSE @]
         /\ fails' = [fails EXCEPT ![p] = IF res.ret THEN @ ELSE @ + 1]
         /\ stale' = Staled(p, res.ret)
    /\ UNCHANGED <<v0, op, b, c, oldV, newV, cas, alloc, rec, remVars, seqVars>>

InitAtom(ops, init0s, args) ==
    /\ v0 \in init0s
    /\ mem_a = v0
    /\ op \in [Procs -> ops]
    /\ \A p \in Procs : \A q \in Procs : op[p] = op[q]
    /\ b \in [Procs -> args]
    /\ pc = [p \in Procs |-> "read"]
    /\ c = [p \in Procs |-> 0]
    /\ oldV = [p \in Procs |-> 0]
    /\ newV = [p \in Procs |-> 0]
    /\ r = [p \in Procs |-> IF op[p] = "fetch_and_add" THEN 0 ELSE FALSE]
    /\ prior = [p \in Procs |-> 0]
    /\ fails = [p \in Procs |-> 0]
    /\ stale = [p \in Procs |-> FALSE]
    /\ cas = CasIdle /\ alloc = AllocIdle /\ rec = RecIdle
    /\ RemIdle
    /\ SeqIdle

InitMin == InitAtom(MinOps, Vals, Vals)

NextMin == \E p \in Procs : MinRead(p) \/ MinCAS(p)

SpecMin == InitMin /\ [][NextMin]_vars

-----------------------------------------------------------------------------
(* writeAdd: lines 454-460, pbbs::fetch_and_add: lines 634-641,
   pbbs::write_add: lines 643-649 *)

AddOps == {"writeAdd", "write_add", "fetch_and_add"}

\* oldV + b; the values of the model stay far below the word's largest value,
\* where + is exact
WordAdd(x, y) == x + y

\* oldV = *a; newV = oldV + b;
AddRead(p) ==
    /\ op[p] \in AddOps
    /\ pc[p] = "read"
    /\ oldV' = [oldV EXCEPT ![p] = mem_a]
    /\ newV' = [newV EXCEPT ![p] = WordAdd(mem_a, b[p])]
    /\ pc' = [pc EXCEPT ![p] = "cas"]
    /\ UNCHANGED <<mem_a, v0, op, b, c, r, prior, fails, stale>>
    /\ UNCHANGED <<cas, alloc, rec, remVars, seqVars>>

\* while (!CAS(a, oldV, newV)); fetch_and_add then returns oldV
AddCAS(p) ==
    /\ op[p] \in AddOps
    /\ pc[p] = "cas"
    /\ LET res == CallerCAS(op[p], mem_a, oldV[p], newV[p]) IN
         /\ mem_a' = res.mem
         /\ r' = [r EXCEPT ![p] = IF res.ret /\ op[p] = "fetch_and_add" THEN oldV[p] ELSE @]
         /\ pc' = [pc EXCEPT ![p] = AfterCAS(res.ret)]
         /\ prior' = [prior EXCEPT ![p] = IF res.ret THEN mem_a ELSE @]
         /\ fails' = [fails EXCEPT ![p] = IF res.ret THEN @ ELSE @ + 1]
         /\ stale' = Staled(p, res.ret)
    /\ UNCHANGED <<v0, op, b, c, oldV, newV, cas, alloc, rec, remVars, seqVars>>

\* the word's initial values: + is invariant under a shift of the initial value
AddInits == {0, 1}

InitAdd == InitAtom(AddOps, AddInits, Vals)

NextAdd == \E p \in Procs : AddRead(p) \/ AddCAS(p)

SpecAdd == InitAdd /\ [][NextAdd]_vars

-----------------------------------------------------------------------------
(* The callers of writeMin, or of writeAdd / write_add / fetch_and_add, as
   threads the scheduler keeps running: a caller that can take a step
   eventually takes one *)

CallerStep(p) == MinRead(p) \/ MinCAS(p) \/ AddRead(p) \/ AddCAS(p)

\* the arguments of the callers: equal ones and different ones, and for
\* writeAdd one that leaves the word as it is
LiveArgs == {0, 1}

\* writeMin callers on a word above their arguments, or adders on a word of 0
InitLockFree ==
    \/ InitAtom(MinOps, {MaxVal}, LiveArgs)
    \/ InitAtom(AddOps, {0}, LiveArgs)

NextLockFree == \E p \in Procs : MinRead(p) \/ MinCAS(p) \/ AddRead(p) \/ AddCAS(p)

SpecLockFree ==
    InitLockFree /\ [][NextLockFree]_vars /\ \A p \in Procs : WF_vars(CallerStep(p))

\* the compare-and-swap of caller p has succeeded
Succeeded(p) == pc[p] = "done" /\ (op[p] \in AddOps \/ r[p] = TRUE)

\* the callers whose compare-and-swap has succeeded
NSucc == Cardinality({p \in Procs : Succeeded(p)})

-----------------------------------------------------------------------------
(* remDuplicates: lines 498-521 *)

\* UINT_E_MAX, the all-ones uintE: written as the signed value of the same bits
UINT_E_MAX == 0 - 1

Entries == 0..(m - 1)

\* the two loops without a join between them
Phase1Over_NoJoin == TRUE

\* the implicit join of the first parallel_for (lines 504-509): the second loop
\* starts when every iteration of the first has ended
Phase1Over == \A i \in Entries : ipc[i] \notin {"p1", "p1cas"}

\* the slot of the neighbouring key
SlotOf_NextKey(key) == (key + 1) % NKeys

\* flags[key]: the slot of flags the entries holding key meet at
SlotOf(key) == key

\* uintE key = get_key(i); if (key != UINT_E_MAX && flags[key] == UINT_E_MAX)
P1Test(i) ==
    /\ i \in Entries
    /\ ipc[i] = "p1"
    /\ LET key == keys[i] IN
         ipc' = [ipc EXCEPT ![i] = IF key # UINT_E_MAX /\ flags[SlotOf(key)] = UINT_E_MAX
                                     THEN "p1cas" ELSE "p1done"]
    /\ UNCHANGED <<m, keys, keys0, flags, won, flagLog, remW>>
    /\ UNCHANGED <<atomVars, cas, alloc, rec, seqVars>>

\* CAS(&flags[key], (uintE)UINT_E_MAX, static_cast<uintE>(i));
P1CAS(i) ==
    /\ i \in Entries
    /\ ipc[i] = "p1cas"
    /\ LET key == keys[i]
           res == CAS(WordSize, "raw", flags[SlotOf(key)], UINT_E_MAX, i)
       IN /\ flags' = [flags EXCEPT ![SlotOf(key)] = res.mem]
          /\ flagLog' = Append(flagLog, [i |-> i, key |-> key, ok |-> res.ret])
          /\ remW' = IF res.ret THEN remW \cup {<<"flags", SlotOf(key), i>>} ELSE remW
    /\ ipc' = [ipc EXCEPT ![i] = "p1done"]
    /\ UNCHANGED <<m, keys, keys0, won>>
    /\ UNCHANGED <<atomVars, cas, alloc, rec, seqVars>>

\* an entry that takes any index recorded in its slot for its own
IsWinner_AnyIndex(flag, i) == flag # UINT_E_MAX

\* if (flags[key] == i): the entry finds its own index recorded
IsWinner(flag, i) == flag = i

\* uintE key = get_key(i); if (key != UINT_E_MAX) { if (flags[key] == i)
P2Test(i) ==
    /\ i \in Entries
    /\ ipc[i] = "p1done"
    /\ Phase1Over
    /\ LET key == keys[i] IN
         IF key = UINT_E_MAX
           THEN /\ ipc' = [ipc EXCEPT ![i] = "done"]
                /\ won' = won
           ELSE /\ ipc' = [ipc EXCEPT ![i] = "p2write"]
                /\ won' = [won EXCEPT ![i] = IsWinner(flags[SlotOf(key)], i)]
    /\ UNCHANGED <<m, keys, keys0, flags, flagLog, remW>>
    /\ UNCHANGED <<atomVars, cas, alloc, rec, seqVars>>

\* flags[key] = UINT_E_MAX; (win)   or   get_key(i) = UINT_E_MAX; (lost)
P2Write(i) ==
    /\ i \in Entries
    /\ ipc[i] = "p2write"
    /\ IF won[i]
         THEN /\ flags' = [flags EXCEPT ![SlotOf(keys[i])] = UINT_E_MAX]
              /\ keys' = keys
              /\ remW' = remW \cup {<<"flags", SlotOf(keys[i]), i>>}
         ELSE /\ keys' = [keys EXCEPT ![i] = UINT_E_MAX]
              /\ flags' = flags
              /\ remW' = remW \cup {<<"keys", i, i>>}
    /\ ipc' = [ipc EXCEPT ![i] = "done"]
    /\ UNCHANGED <<m, keys0, won, flagLog>>
    /\ UNCHANGED <<atomVars, cas, alloc, rec, seqVars>>

InitRem ==
    /\ m \in 1..MaxM
    /\ keys0 \in [Entries -> (0..(NKeys - 1)) \cup {UINT_E_MAX}]
    /\ keys = keys0
    /\ flags = [k \in 0..(NKeys - 1) |-> UINT_E_MAX]
    /\ ipc = [i \in Entries |-> "p1"]
    /\ won = [i \in Entries |-> FALSE]
    /\ flagLog = << >> /\ remW = {}
    /\ AtomIdle
    /\ cas = CasIdle /\ alloc = AllocIdle /\ rec = RecIdle
    /\ SeqIdle

NextRem == \E i \in 0..(MaxM - 1) : P1Test(i) \/ P1CAS(i) \/ P2Test(i) \/ P2Write(i)

SpecRem == InitRem /\ [][NextRem]_vars

\* remDuplicates has returned
RemReturned == m > 0 /\ \A i \in Entries : ipc[i] = "done"

-----------------------------------------------------------------------------
(* pbbs::new_array_no_init: lines 580-602 *)

\* size_t line_size = 64;
line_size == 64

\* size_t arithmetic is modulo 2^SizeBits
SizeMod == 2 ^ SizeBits

\* the stride of the touching loop: 1 << 21 in the source
TouchStride == 2 ^ TouchLog

\* the widths of the element types of the model: bool, int, long
ElemSizes == {1, 4, 8}

\* size_t bytes = ((n * sizeof(E)) / line_size + 1) * line_size;
allocBytes(n, size) ==
    (((((n * size) % SizeMod) \div line_size) + 1) * line_size) % SizeMod

\* what aligned_alloc(line_size, bytes) / posix_memalign may return: NULL (0), or
\* an address that is a multiple of line_size
AlignedAlloc(alignment, bytes) == {0} \cup {alignment * k : k \in 1..2}

\* the iterations of parallel_for(size_t i = 0; i < bytes; i = i + (1 << 21))
TouchIters(bytes) == {i \in 0..(bytes - 1) : i % TouchStride = 0}

\* bytes is computed, the memory requested; r == NULL prints "Cannot allocate
\* space" and exits
AllocCall ==
    /\ alloc.at = "call"
    /\ LET bytes == allocBytes(alloc.n, alloc.size) IN
         \E ptr \in AlignedAlloc(line_size, bytes) :
            alloc' = [alloc EXCEPT
                        !.bytes = bytes,
                        !.r = ptr,
                        !.at = IF ptr = 0 THEN "exit"
                               ELSE IF alloc.touch THEN "touch" ELSE "returned",
                        !.todo = IF ptr # 0 /\ alloc.touch THEN TouchIters(bytes) ELSE {}]
    /\ UNCHANGED <<atomVars, cas, rec, remVars, seqVars>>

\* one iteration of the touching loop: ((bool *)r)[i] = 0;
AllocTouch(i) ==
    /\ alloc.at = "touch"
    /\ i \in alloc.todo
    /\ alloc' = [alloc EXCEPT !.todo = @ \ {i}, !.touched = @ \cup {i}]
    /\ UNCHANGED <<atomVars, cas, rec, remVars, seqVars>>

\* after the join: return r;
AllocReturn ==
    /\ alloc.at = "touch"
    /\ alloc.todo = {}
    /\ alloc' = [alloc EXCEPT !.at = "returned"]
    /\ UNCHANGED <<atomVars, cas, rec, remVars, seqVars>>

InitAlloc ==
    /\ alloc \in [n : 0..(SizeMod - 1), size : ElemSizes, touch : BOOLEAN, bytes : {0},
                   r : {0}, at : {"call"}, todo : {{}}, touched : {{}}]
    /\ AtomIdle /\ cas = CasIdle /\ rec = RecIdle /\ RemIdle /\ SeqIdle

NextAlloc ==
    \/ AllocCall
    \/ \E i \in 0..(SizeMod - 1) : AllocTouch(i)
    \/ AllocReturn

SpecAlloc == InitAlloc /\ [][NextAlloc]_vars

-----------------------------------------------------------------------------
(* Block partition: lines 84-85, 127-140 *)

SCAN_BSIZE == 2 ^ SCAN_LOG_BSIZE

\* the quotient of C's integer division (it truncates towards zero), y > 0
CDiv(x, y) == IF x >= 0 THEN x \div y ELSE 0 - ((0 - x) \div y)

Min2(x, y) == IF x < y THEN x ELSE y

nblocks(len, bsize) == 1 + CDiv(len - 1, bsize)

\* blocks that start one element early: neighbours share an element
BlockS_Overlapping(i, ss, bsize) == ss + i * (bsize - 1)

\* blocked_for: iteration i runs its body on [BlockS, BlockE)
BlockS(i, ss, bsize) == ss + i * bsize
BlockE(i, ss, ee, bsize) == Min2(BlockS(i, ss, bsize) + bsize, ee)

\* intT, the type of s, e, n and l, is a template parameter: a signed integer
\* (int, long) or an unsigned one (uintE, uintT: packIndex<uintE>)
IndexTypes == {"signed", "unsigned"}

\* intT l = nblocks(n, bsize) computed in intT: in an unsigned intT n - 1 wraps
\* around when n = 0
nblocksT(ix, len, bsize) ==
    IF ix = "unsigned" THEN 1 + (((len - 1) % (2 ^ IdxBits)) \div bsize)
                       ELSE nblocks(len, bsize)

\* the reads g(lo), ..., g(hi - 1) through the accessor, and Fl[lo], ..., Fl[hi - 1]
ReadsG(lo, hi) == {<<"g", j>> : j \in lo..(hi - 1)}
ReadsFl(lo, hi) == {<<"Fl", j>> : j \in lo..(hi - 1)}

\* an array of len elements, indexed from 0
Array(len, val(_)) == [i \in 0..(len - 1) |-> val(i)]
ALen(X) == Cardinality(DOMAIN X)

-----------------------------------------------------------------------------
(* Combiners: addF, lines 56-58; "cat" is concatenation of words, an associative
   combiner that is not commutative *)

Combiners == {"cat", "add"}

F(f, x, y) == IF f = "add" THEN x + y ELSE x \o y

\* the element of a combiner's type that stands for letter x
Elem(f, x) == IF f = "add" THEN x ELSE <<x>>

\* the content of memory that was allocated and never written
Undef(f) == Elem(f, 0)

Letters == {1, 2}

\* what a read of memory that was never written, or that lies past the end of
\* its array, may deliver
Garbage(f) == {Undef(f), Elem(f, 1)}

\* the array S read when only its first nw elements were written
ReadUninit(S, nw, f) ==
    {[i \in DOMAIN S |-> IF i < nw THEN S[i] ELSE junk[i]] :
        junk \in [{i \in DOMAIN S : i >= nw} -> Garbage(f)]}

-----------------------------------------------------------------------------
(* reduceSerial: lines 155-161; reduce: lines 163-173 *)

RECURSIVE reduceLoop(_, _, _, _, _)
\* for (j; j < e; j++) r = f(r, g(j));
reduceLoop(j, e, f, G, acc) ==
    IF j < e THEN reduceLoop(j + 1, e, f, G, F(f, acc, G[j])) ELSE acc

RECURSIVE reduceLoop_Swapped(_, _, _, _, _)
\* r = f(g(j), r): the operands of the combiner exchanged
reduceLoop_Swapped(j, e, f, G, acc) ==
    IF j < e THEN reduceLoop_Swapped(j + 1, e, f, G, F(f, G[j], acc)) ELSE acc

reduceSerial_Swapped(s, e, f, G) == reduceLoop_Swapped(s + 1, e, f, G, G[s])

reduceSerial(s, e, f, G) == reduceLoop(s + 1, e, f, G, G[s])

\* the reads of reduceSerial: g(s), also when the range is empty, then g(s+1..e-1)
reduceReads(s, e) == {<<"g", s>>} \cup ReadsG(s + 1, e)

\* the values reduceSerial may return: g(s) reads past the end of the array when
\* the range is empty and starts at the array's end
reduceSerialAt(s, e, f, G) ==
    IF s \in DOMAIN G THEN {reduceSerial(s, e, f, G)} ELSE Garbage(f)

\* the block sums the first blocked_for of reduce and of scan computes
BlockSums(s, e, f, G, bsize) ==
    Array(nblocks(e - s, bsize),
          LAMBDA i : reduceSerial(BlockS(i, s, bsize), BlockE(i, s, e, bsize), f, G))

\* the block count at which reduce hands the range to reduceSerial
ReduceBase == 1

RECURSIVE reduce(_, _, _, _)
reduce(s, e, f, G) ==
    LET l == nblocks(e - s, SCAN_BSIZE) IN
      IF l <= ReduceBase THEN reduceSerial(s, e, f, G)
      ELSE reduce(0, l, f, BlockSums(s, e, f, G, SCAN_BSIZE))

\* reduce(s, e, f, g): the call
ReduceCall ==
    /\ fn = "reduce" /\ phase = "call"
    /\ LET l == nblocks(arg.e - arg.s, SCAN_BSIZE) IN
         IF l <= ReduceBase
           THEN /\ ret' = reduceSerial(arg.s, arg.e, arg.f, In)
                /\ rlog' = reduceReads(arg.s, arg.e)
                /\ phase' = "returned"
                /\ UNCHANGED <<Sums, pending>>
           ELSE /\ Sums' = Array(l, LAMBDA i : Undef(arg.f))
                /\ pending' = 0..(l - 1)
                /\ phase' = "fold"
                /\ UNCHANGED <<ret, rlog>>
    /\ UNCHANGED <<fn, arg, In, Out, Fl, wlog>>
    /\ UNCHANGED <<atomVars, cas, alloc, rec, remVars>>

\* one iteration of blocked_for(i, s, e, _SCAN_BSIZE, Sums[i] = reduceSerial(s, e, f, g))
ReduceFold(i) ==
    /\ fn = "reduce" /\ phase = "fold" /\ i \in pending
    /\ Sums' = [Sums EXCEPT ![i] =
          reduceSerial(BlockS(i, arg.s, SCAN_BSIZE), BlockE(i, arg.s, arg.e, SCAN_BSIZE),
                       arg.f, In)]
    /\ rlog' = rlog \cup reduceReads(BlockS(i, arg.s, SCAN_BSIZE),
                                     BlockE(i, arg.s, arg.e, SCAN_BSIZE))
    /\ pending' = pending \ {i}
    /\ UNCHANGED <<fn, arg, In, Out, Fl, phase, ret, wlog>>
    /\ UNCHANGED <<atomVars, cas, alloc, rec, remVars>>

\* after the join: r = reduce(0, l, f, getA(Sums)); free(Sums); return r;
ReduceSums ==
    /\ fn = "reduce" /\ phase = "fold" /\ pending = {}
    /\ ret' = reduce(0, ALen(Sums), arg.f, Sums)
    /\ Sums' = << >>
    /\ phase' = "returned"
    /\ UNCHANGED <<fn, arg, In, Out, Fl, pending, wlog, rlog>>
    /\ UNCHANGED <<atomVars, cas, alloc, rec, remVars>>

\* the arrays of len letters
Inputs(f, len) == [0..(len - 1) -> {Elem(f, x) : x \in Letters}]

InitReduce ==
    /\ fn = "reduce" /\ phase = "call"
    /\ \E f \in Combiners : \E len \in 1..MaxN :
          /\ arg = [s |-> 0, e |-> len, f |-> f]
          /\ In \in Inputs(f, len)
    /\ Out = << >> /\ Fl = << >> /\ Sums = << >>
    /\ pending = {} /\ ret = << >> /\ wlog = {} /\ rlog = {}
    /\ AtomIdle /\ cas = CasIdle /\ alloc = AllocIdle /\ rec = RecIdle /\ RemIdle

NextReduce ==
    \/ ReduceCall
    \/ \E i \in 0..MaxN : ReduceFold(i)
    \/ ReduceSums

SpecReduce == InitReduce /\ [][NextReduce]_vars

-----------------------------------------------------------------------------
(* scanSerial: lines 264-295; scan: lines 302-316 *)

\* g(i): the accessor reads the input array, which is Out itself when the scan
\* runs in place (scan(Sums, 0, l, f, getA(Sums), ...), plusScan(Sums, Sums, l))
Get(O, G, inplace, i) == IF inplace THEN O[i] ELSE G[i]

RECURSIVE scanFwd(_, _, _, _, _, _, _, _)
\* for (i; i < e; i++) { Out[i] = r = f(r, g(i)); }                    (inclusive)
\* for (i; i < e; i++) { ET t = g(i); Out[i] = r; r = f(r, t); }       (exclusive)
scanFwd(O, acc, i, e, f, G, inplace, inclusive) ==
    IF i < e
      THEN LET t == Get(O, G, inplace, i)
               nacc == F(f, acc, t)
           IN scanFwd([O EXCEPT ![i] = IF inclusive THEN nacc ELSE acc],
                      nacc, i + 1, e, f, G, inplace, inclusive)
      ELSE [Out |-> O, r |-> acc]

RECURSIVE scanBwd(_, _, _, _, _, _, _, _)
\* while (i > s) { i--; Out[i] = r = f(r, g(i)); }                      (inclusive)
\* while (i > s) { i--; ET t = g(i); Out[i] = r; r = f(r, t); }         (exclusive)
scanBwd(O, acc, i, s, f, G, inplace, inclusive) ==
    IF i > s
      THEN LET t == Get(O, G, inplace, i - 1)
               nacc == F(f, acc, t)
           IN scanBwd([O EXCEPT ![i - 1] = IF inclusive THEN nacc ELSE acc],
                      nacc, i - 1, s, f, G, inplace, inclusive)
      ELSE [Out |-> O, r |-> acc]

RECURSIVE scanFwd_WriteFirst(_, _, _, _, _, _, _)
\* the exclusive forward loop storing before it reads:
\* for (i; i < e; i++) { Out[i] = r; r = f(r, g(i)); }
scanFwd_WriteFirst(O, acc, i, e, f, G, inplace) ==
    IF i < e
      THEN LET O1 == [O EXCEPT ![i] = acc] IN
             scanFwd_WriteFirst(O1, F(f, acc, Get(O1, G, inplace, i)), i + 1, e, f, G, inplace)
      ELSE [Out |-> O, r |-> acc]

\* scanSerial with that loop in its exclusive forward branch
scanSerial_WriteFirst(O, s, e, f, G, inplace, zero, inclusive, back) ==
    IF back THEN scanBwd(O, zero, e, s, f, G, inplace, inclusive)
    ELSE IF inclusive THEN scanFwd(O, zero, s, e, f, G, inplace, inclusive)
    ELSE scanFwd_WriteFirst(O, zero, s, e, f, G, inplace)

\* scanSerial(Out, s, e, f, g, zero, inclusive, back): the array Out it leaves
\* and the value r it returns
scanSerial(O, s, e, f, G, inplace, zero, inclusive, back) ==
    IF back THEN scanBwd(O, zero, e, s, f, G, inplace, inclusive)
            ELSE scanFwd(O, zero, s, e, f, G, inplace, inclusive)

\* the block count up to which scan hands the range to scanSerial
ScanBase == 2

RECURSIVE scanBlocks(_, _, _, _, _, _, _, _, _, _, _)
\* the second blocked_for of scan, its iterations i, i+1, ..., l-1 one after another:
\* scanSerial(Out, s, e, f, g, Sums[i], inclusive, back)
scanBlocks(O, i, l, s, e, f, G, inplace, S, inclusive, back) ==
    IF i < l
      THEN scanBlocks(scanSerial(O, BlockS(i, s, SCAN_BSIZE), BlockE(i, s, e, SCAN_BSIZE),
                                 f, G, inplace, S[i], inclusive, back).Out,
                      i + 1, l, s, e, f, G, inplace, S, inclusive, back)
      ELSE O

RECURSIVE scan(_, _, _, _, _, _, _, _, _)

\* the block sums scanned inclusive
SumsScan_Inclusive(S, l, f, zero, inclusive, back) ==
    scan(S, 0, l, f, S, TRUE, zero, TRUE, back)

\* the block sums scanned in the mode of the outer call
SumsScan_OuterMode(S, l, f, zero, inclusive, back) ==
    scan(S, 0, l, f, S, TRUE, zero, inclusive, back)

\* the block sums scanned forward, whatever the direction of the outer call
SumsScan_Forward(S, l, f, zero, inclusive, back) ==
    scan(S, 0, l, f, S, TRUE, zero, FALSE, FALSE)

\* ET total = scan(Sums, (intT)0, l, f, getA<ET, intT>(Sums), zero, false, back);
SumsScan(S, l, f, zero, inclusive, back) ==
    scan(S, 0, l, f, S, TRUE, zero, FALSE, back)

\* scan(Out, s, e, f, g, zero, inclusive, back): the array Out it leaves and the
\* total it returns
scan(O, s, e, f, G, inplace, zero, inclusive, back) ==
    LET l == nblocks(e - s, SCAN_BSIZE) IN
      IF l <= ScanBase THEN scanSerial(O, s, e, f, G, inplace, zero, inclusive, back)
      ELSE LET S0 == BlockSums(s, e, f, IF inplace THEN O ELSE G, SCAN_BSIZE)
               inner == SumsScan(S0, l, f, zero, inclusive, back)
           IN [Out |-> scanBlocks(O, 0, l, s, e, f, G, inplace, inner.Out, inclusive, back),
               r |-> inner.r]

\* scan(Out, s, e, f, g, zero, inclusive, back): the call
ScanCall ==
    /\ fn = "scan" /\ phase = "call"
    /\ LET l == nblocksT(arg.ix, arg.e - arg.s, SCAN_BSIZE) IN
         IF l <= ScanBase
           THEN LET res == scanSerial(Out, arg.s, arg.e, arg.f, In, arg.inplace, arg.zero,
                                      arg.inclusive, arg.back)
                IN /\ Out' = res.Out
                   /\ ret' = res.r
                   /\ wlog' = {<<0, j>> : j \in arg.s..(arg.e - 1)}
                   /\ rlog' = ReadsG(arg.s, arg.e)
                   /\ phase' = "returned"
                   /\ UNCHANGED <<Sums, pending>>
           ELSE \* Sums has l elements; blocked_for computes its own count in long
                /\ Sums' = Array(l, LAMBDA i : Undef(arg.f))
                /\ pending' = 0..(nblocks(arg.e - arg.s, SCAN_BSIZE) - 1)
                /\ phase' = "fold"
                /\ UNCHANGED <<Out, ret, wlog, rlog>>
    /\ UNCHANGED <<fn, arg, In, Fl>>
    /\ UNCHANGED <<atomVars, cas, alloc, rec, remVars>>

\* one iteration of blocked_for(i, s, e, _SCAN_BSIZE, Sums[i] = reduceSerial(s, e, f, g))
ScanFold(i) ==
    /\ fn = "scan" /\ phase = "fold" /\ i \in pending
    /\ LET bs == BlockS(i, arg.s, SCAN_BSIZE)
           be == BlockE(i, arg.s, arg.e, SCAN_BSIZE)
       IN /\ \E v \in reduceSerialAt(bs, be, arg.f, IF arg.inplace THEN Out ELSE In) :
                Sums' = [Sums EXCEPT ![i] = v]
          /\ rlog' = rlog \cup reduceReads(bs, be)
    /\ pending' = pending \ {i}
    /\ UNCHANGED <<fn, arg, In, Out, Fl, phase, ret, wlog>>
    /\ UNCHANGED <<atomVars, cas, alloc, rec, remVars>>

\* after the join: total = scan(Sums, 0, l, f, getA(Sums), zero, false, back)
ScanSums ==
    /\ fn = "scan" /\ phase = "fold" /\ pending = {}
    /\ \E S \in ReadUninit(Sums, nblocks(arg.e - arg.s, SCAN_BSIZE), arg.f) :
         LET res == SumsScan(S, ALen(S), arg.f, arg.zero, arg.inclusive, arg.back) IN
           /\ Sums' = res.Out
           /\ ret' = res.r
    /\ pending' = 0..(nblocks(arg.e - arg.s, SCAN_BSIZE) - 1)
    /\ phase' = "write"
    /\ UNCHANGED <<fn, arg, In, Out, Fl, wlog, rlog>>
    /\ UNCHANGED <<atomVars, cas, alloc, rec, remVars>>

\* one iteration of blocked_for(i, s, e, _SCAN_BSIZE,
\*                             scanSerial(Out, s, e, f, g, Sums[i], inclusive, back))
ScanWrite(i) ==
    /\ fn = "scan" /\ phase = "write" /\ i \in pending
    /\ LET bs == BlockS(i, arg.s, SCAN_BSIZE)
           be == BlockE(i, arg.s, arg.e, SCAN_BSIZE)
       IN /\ Out' = scanSerial(Out, bs, be, arg.f, In, arg.inplace, Sums[i],
                               arg.inclusive, arg.back).Out
          /\ wlog' = wlog \cup {<<i, j>> : j \in bs..(be - 1)}
          /\ rlog' = rlog \cup ReadsG(bs, be)
    /\ pending' = pending \ {i}
    /\ UNCHANGED <<fn, arg, In, Fl, Sums, phase, ret>>
    /\ UNCHANGED <<atomVars, cas, alloc, rec, remVars>>

\* after the join: free(Sums); return total;
ScanReturn ==
    /\ fn = "scan" /\ phase = "write" /\ pending = {}
    /\ Sums' = << >>
    /\ phase' = "returned"
    /\ UNCHANGED <<fn, arg, In, Out, Fl, pending, ret, wlog, rlog>>
    /\ UNCHANGED <<atomVars, cas, alloc, rec, remVars>>

\* the zero of a call: the combiner's identity, or an element that is not
Zeros(f) == IF f = "add" THEN {0, 5} ELSE {<< >>, <<3>>}

ScanCombiners == Combiners

InitScan ==
    /\ fn = "scan" /\ phase = "call"
    /\ \E f \in ScanCombiners : \E len \in 0..MaxN :
          /\ arg \in [s : {0}, e : {len}, f : {f}, zero : Zeros(f),
                       inclusive : BOOLEAN, back : BOOLEAN, inplace : {FALSE},
                       ix : {"signed"}]
          /\ In \in Inputs(f, len)
          /\ Out = Array(len, LAMBDA i : Undef(f))
    /\ Fl = << >> /\ Sums = << >>
    /\ pending = {} /\ ret = << >> /\ wlog = {} /\ rlog = {}
    /\ AtomIdle /\ cas = CasIdle /\ alloc = AllocIdle /\ rec = RecIdle /\ RemIdle

NextScan ==
    \/ ScanCall
    \/ \E i \in 0..MaxN : ScanFold(i)
    \/ ScanSums
    \/ \E i \in 0..MaxN : ScanWrite(i)
    \/ ScanReturn

SpecScan == InitScan /\ [][NextScan]_vars

\* scan called with a separate output array, or with Out the array the accessor
\* reads (scan(Sums, 0, l, f, getA(Sums), ...), plusScan(Sums, Sums, l)); In is
\* then the content of that array at the call
InitScanInPlace ==
    /\ fn = "scan" /\ phase = "call"
    /\ \E f \in ScanCombiners : \E len \in 0..MaxN :
          /\ arg \in [s : {0}, e : {len}, f : {f}, zero : Zeros(f),
                       inclusive : BOOLEAN, back : BOOLEAN, inplace : BOOLEAN,
                       ix : {"signed"}]
          /\ In \in Inputs(f, len)
          /\ Out = IF arg.inplace THEN In ELSE Array(len, LAMBDA i : Undef(f))
    /\ Fl = << >> /\ Sums = << >>
    /\ pending = {} /\ ret = << >> /\ wlog = {} /\ rlog = {}
    /\ AtomIdle /\ cas = CasIdle /\ alloc = AllocIdle /\ rec = RecIdle /\ RemIdle

SpecScanInPlace == InitScanInPlace /\ [][NextScan]_vars

ScanReturned == fn = "scan" /\ phase = "returned"

\* the call went through the blocked case
ScanBlocked == nblocks(arg.e - arg.s, SCAN_BSIZE) > ScanBase

-----------------------------------------------------------------------------
(* sumFlagsSerial: lines 348-371 *)

F_BSIZE == 2 * SCAN_BSIZE

\* sizeof(int): the flags one int covers
SizeofInt == 4

\* IFl[j] for int *IFl = (int *)(Fl + off): four flag bytes, the lowest first
IntAt(FlArr, off, j) ==
    FlArr[off + SizeofInt * j] + 256 * FlArr[off + SizeofInt * j + 1]
      + 65536 * FlArr[off + SizeofInt * j + 2] + 16777216 * FlArr[off + SizeofInt * j + 3]

RECURSIVE sumInts(_, _, _, _)
\* for (j; j < 128; j++) rr += IFl[j];
sumInts(FlArr, off, j, rr) ==
    IF j < SUM_INTS THEN sumInts(FlArr, off, j + 1, rr + IntAt(FlArr, off, j)) ELSE rr

\* (rr & 255) + ((rr >> 8) & 255) + ((rr >> 16) & 255) + ((rr >> 24) & 255)
ByteLanes(rr) ==
    (rr % 256) + ((rr \div 256) % 256) + ((rr \div 65536) % 256) + ((rr \div 16777216) % 256)

RECURSIVE sumBatches(_, _, _, _, _)
\* for (k; k < (n >> 9); k++) { rr = ...; r += ...; IFl += 128; }
sumBatches(FlArr, off, k, nb, acc) ==
    IF k < nb
      THEN sumBatches(FlArr, off + SizeofInt * SUM_INTS, k + 1, nb,
                      acc + ByteLanes(sumInts(FlArr, off, 0, 0)))
      ELSE acc

RECURSIVE sumBytes(_, _, _, _, _)
\* for (j; j < n; j++) r += Fl[j];
sumBytes(FlArr, off, j, len, acc) ==
    IF j < len THEN sumBytes(FlArr, off, j + 1, len, acc + FlArr[off + j]) ELSE acc

\* sumFlagsSerial(Fl + off, len), where addr is the address of Fl[0]:
\* n >= 128 && (n & 511) == 0 && ((long)Fl & 3) == 0 selects the batched sum
sumFlagsSerial(FlArr, off, len, addr) ==
    IF len >= SUM_INTS /\ len % (SizeofInt * SUM_INTS) = 0 /\ (addr + off) % SizeofInt = 0
      THEN sumBatches(FlArr, off, 0, len \div (SizeofInt * SUM_INTS), 0)
      ELSE sumBytes(FlArr, off, 0, len, 0)

-----------------------------------------------------------------------------
(* packSerial: lines 373-384; pack: lines 386-406 *)

RECURSIVE packLoop(_, _, _, _, _, _, _)
\* for (i; i < e; i++) if (Fl[i]) Out[k++] = f(i);    with Out = O + off
packLoop(O, off, k, i, e, FlArr, G) ==
    IF i < e
      THEN IF FlArr[i] # 0
             THEN packLoop([O EXCEPT ![off + k] = G[i]], off, k + 1, i + 1, e, FlArr, G)
             ELSE packLoop(O, off, k, i + 1, e, FlArr, G)
      ELSE [Out |-> O, n |-> k]

\* packSerial(O + off, Fl, s, e, f), O being NULL when isNull: the array the
\* returned sequence is in, and its length
packSerial(O, isNull, off, FlArr, s, e, G, addr) ==
    IF isNull
      THEN packLoop(Array(sumFlagsSerial(FlArr, s, e - s, addr), LAMBDA i : Undef("add")),
                    0, 0, s, e, FlArr, G)
      ELSE packLoop(O, off, 0, s, e, FlArr, G)

\* the reads of packSerial's loop: every flag of [s, e), and f(i) where it is set
packReads(FlArr, s, e) ==
    ReadsFl(s, e) \cup {<<"g", i>> : i \in {j \in s..(e - 1) : FlArr[j] # 0}}

\* pack with the base case of scan
PackBase_AsScan == ScanBase

\* the block count up to which pack hands the range to packSerial
PackBase == 1

\* the counts of the first blocked_for of pack
BlockCounts(FlArr, s, e, addr) ==
    Array(nblocks(e - s, F_BSIZE),
          LAMBDA i : sumFlagsSerial(FlArr, BlockS(i, s, F_BSIZE),
                                    BlockE(i, s, e, F_BSIZE) - BlockS(i, s, F_BSIZE), addr))

\* plusScanI in the place of plusScan
PackOffsets_Inclusive(S, l) == scan(S, 0, l, "add", S, TRUE, 0, TRUE, FALSE)

\* intT m = plusScan(Sums, Sums, l);
PackOffsets(S, l) == scan(S, 0, l, "add", S, TRUE, 0, FALSE, FALSE)

RECURSIVE packBlocks(_, _, _, _, _, _, _, _)
\* the second blocked_for of pack, its iterations i, i+1, ..., l-1 one after another:
\* packSerial(Out + Sums[i], Fl, s, e, f)
packBlocks(O, i, l, S, FlArr, s, e, G) ==
    IF i < l
      THEN packBlocks(packLoop(O, S[i], 0, BlockS(i, s, F_BSIZE), BlockE(i, s, e, F_BSIZE),
                               FlArr, G).Out,
                      i + 1, l, S, FlArr, s, e, G)
      ELSE O

\* pack(O, Fl, s, e, f): the array of the returned sequence, and its length
pack(O, isNull, FlArr, s, e, G, addr) ==
    LET l == nblocks(e - s, F_BSIZE) IN
      IF l <= PackBase THEN packSerial(O, isNull, 0, FlArr, s, e, G, addr)
      ELSE LET offs == PackOffsets(BlockCounts(FlArr, s, e, addr), l)
               O1 == IF isNull THEN Array(offs.r, LAMBDA i : Undef("add")) ELSE O
           IN [Out |-> packBlocks(O1, 0, l, offs.Out, FlArr, s, e, G), n |-> offs.r]

PackFns == {"pack", "filter"}

\* pack(Out, Fl, s, e, f): the call
PackCall ==
    /\ fn \in PackFns /\ phase = "call"
    /\ LET l == nblocksT(arg.ix, arg.e - arg.s, F_BSIZE) IN
         IF l <= PackBase
           THEN LET res == packSerial(Out, arg.outNull, 0, Fl, arg.s, arg.e, In, arg.flAddr)
                IN /\ Out' = res.Out
                   /\ ret' = res.n
                   /\ wlog' = {<<0, k>> : k \in 0..(res.n - 1)}
                   /\ rlog' = packReads(Fl, arg.s, arg.e)
                   /\ phase' = "returned"
                   /\ UNCHANGED <<Sums, pending>>
           ELSE \* Sums has l elements; blocked_for computes its own count in long
                /\ Sums' = Array(l, LAMBDA i : Undef("add"))
                /\ pending' = 0..(nblocks(arg.e - arg.s, F_BSIZE) - 1)
                /\ phase' = "fold"
                /\ UNCHANGED <<Out, ret, wlog, rlog>>
    /\ UNCHANGED <<fn, arg, In, Fl>>
    /\ UNCHANGED <<atomVars, cas, alloc, rec, remVars>>

\* one iteration of blocked_for(i, s, e, _F_BSIZE, Sums[i] = sumFlagsSerial(Fl + s, e - s))
PackCount(i) ==
    /\ fn \in PackFns /\ phase = "fold" /\ i \in pending
    /\ LET bs == BlockS(i, arg.s, F_BSIZE)
           be == BlockE(i, arg.s, arg.e, F_BSIZE)
       IN /\ Sums' = [Sums EXCEPT ![i] = sumFlagsSerial(Fl, bs, be - bs, arg.flAddr)]
          /\ rlog' = rlog \cup ReadsFl(bs, be)
    /\ pending' = pending \ {i}
    /\ UNCHANGED <<fn, arg, In, Out, Fl, phase, ret, wlog>>
    /\ UNCHANGED <<atomVars, cas, alloc, rec, remVars>>

\* after the join: m = plusScan(Sums, Sums, l); if (Out == NULL) Out = newA(ET, m);
PackScan ==
    /\ fn \in PackFns /\ phase = "fold" /\ pending = {}
    /\ \E S \in ReadUninit(Sums, nblocks(arg.e - arg.s, F_BSIZE), "add") :
         LET res == PackOffsets(S, ALen(S)) IN
           /\ Sums' = res.Out
           /\ ret' = res.r
           /\ Out' = IF arg.outNull THEN Array(res.r, LAMBDA i : Undef("add")) ELSE Out
    /\ pending' = 0..(nblocks(arg.e - arg.s, F_BSIZE) - 1)
    /\ phase' = "write"
    /\ UNCHANGED <<fn, arg, In, Fl, wlog, rlog>>
    /\ UNCHANGED <<atomVars, cas, alloc, rec, remVars>>

\* one iteration of blocked_for(i, s, e, _F_BSIZE, packSerial(Out + Sums[i], Fl, s, e, f))
PackWrite(i) ==
    /\ fn \in PackFns /\ phase = "write" /\ i \in pending
    /\ LET res == packLoop(Out, Sums[i], 0, BlockS(i, arg.s, F_BSIZE),
                           BlockE(i, arg.s, arg.e, F_BSIZE), Fl, In)
       IN /\ Out' = res.Out
          /\ wlog' = wlog \cup {<<i, Sums[i] + k>> : k \in 0..(res.n - 1)}
          /\ rlog' = rlog \cup packReads(Fl, BlockS(i, arg.s, F_BSIZE),
                                        BlockE(i, arg.s, arg.e, F_BSIZE))
    /\ pending' = pending \ {i}
    /\ UNCHANGED <<fn, arg, In, Fl, Sums, phase, ret>>
    /\ UNCHANGED <<atomVars, cas, alloc, rec, remVars>>

\* after the join: free(Sums); return _seq<ET>(Out, m);
PackReturn ==
    /\ fn \in PackFns /\ phase = "write" /\ pending = {}
    /\ Sums' = << >>
    /\ phase' = "returned"
    /\ UNCHANGED <<fn, arg, In, Out, Fl, pending, ret, wlog, rlog>>
    /\ UNCHANGED <<atomVars, cas, alloc, rec, remVars>>

\* the flags arrays of the model: every array of at most MaxN flags, and the
\* periodic arrays of LongN flags
FlagArrays ==
    (UNION {[0..(len - 1) -> {0, 1}] : len \in 0..MaxN})
      \cup {[i \in 0..(LongN - 1) |-> pat[i % 3]] : pat \in [0..2 -> {0, 1}]}

InitPack ==
    /\ fn = "pack" /\ phase = "call"
    /\ Fl \in FlagArrays
    /\ arg \in [s : {0, 1}, e : {ALen(Fl)}, outNull : BOOLEAN, flAddr : {0, 1},
                 ix : {"signed"}]
    /\ arg.s <= arg.e
    /\ In = Array(arg.e, LAMBDA i : 10 + i)
    /\ Out = IF arg.outNull THEN << >> ELSE Array(arg.e - arg.s, LAMBDA i : Undef("add"))
    /\ Sums = << >>
    /\ pending = {} /\ ret = << >> /\ wlog = {} /\ rlog = {}
    /\ AtomIdle /\ cas = CasIdle /\ alloc = AllocIdle /\ rec = RecIdle /\ RemIdle

NextPack ==
    \/ PackCall
    \/ \E i \in 0..LongN : PackCount(i)
    \/ PackScan
    \/ \E i \in 0..LongN : PackWrite(i)
    \/ PackReturn

SpecPack == InitPack /\ [][NextPack]_vars

PackBlocked == nblocks(arg.e - arg.s, F_BSIZE) > PackBase

-----------------------------------------------------------------------------
(* filter: lines 412-425; nonMaxF: lines 72-74 *)

\* the predicates of the model: nonMaxF, and one whose result is an int
Preds == {"nonMaxF", "rem3"}

\* p(x); UINT_E_MAX is a multiple of 3
P(p, x) ==
    IF p = "nonMaxF" THEN (IF x # UINT_E_MAX THEN 1 ELSE 0)
    ELSE IF x = UINT_E_MAX THEN 0 ELSE x % 3

\* the int stored into the byte without the conversion to bool
ToBool_Truncate(x) == x % 2

\* (bool)x
ToBool(x) == IF x # 0 THEN 1 ELSE 0

\* filter(In, Out, n, p): bool *Fl = newA(bool, n), and the parallel_for of line 414 starts
FilterCall ==
    /\ fn = "filter" /\ phase = "enter"
    /\ Fl' = Array(arg.e, LAMBDA i : 0)
    /\ pending' = 0..(arg.e - 1)
    /\ phase' = "flags"
    /\ UNCHANGED <<fn, arg, In, Out, Sums, ret, wlog, rlog>>
    /\ UNCHANGED <<atomVars, cas, alloc, rec, remVars>>

\* one iteration of parallel_for(i = 0; i < n; i++) Fl[i] = (bool)p(In[i]);
FilterFlag(i) ==
    /\ fn = "filter" /\ phase = "flags" /\ i \in pending
    /\ Fl' = [Fl EXCEPT ![i] = ToBool(P(arg.p, In[i]))]
    /\ pending' = pending \ {i}
    /\ UNCHANGED <<fn, arg, In, Out, Sums, phase, ret, wlog, rlog>>
    /\ UNCHANGED <<atomVars, cas, alloc, rec, remVars>>

\* after the join: intT m = pack(In, Out, Fl, n);
FilterPack ==
    /\ fn = "filter" /\ phase = "flags" /\ pending = {}
    /\ phase' = "call"
    /\ UNCHANGED <<fn, arg, In, Out, Fl, Sums, pending, ret, wlog, rlog>>
    /\ UNCHANGED <<atomVars, cas, alloc, rec, remVars>>

FilterVals == {UINT_E_MAX, 1, 2}

InitFilter ==
    /\ fn = "filter" /\ phase = "enter"
    /\ \E len \in 0..MaxFilterN :
          /\ arg \in [s : {0}, e : {len}, outNull : {FALSE}, flAddr : {0}, p : Preds,
                       ix : {"signed"}]
          /\ In \in [0..(len - 1) -> FilterVals]
          /\ Out = Array(len, LAMBDA i : Undef("add"))
    /\ Fl = << >> /\ Sums = << >>
    /\ pending = {} /\ ret = << >> /\ wlog = {} /\ rlog = {}
    /\ AtomIdle /\ cas = CasIdle /\ alloc = AllocIdle /\ rec = RecIdle /\ RemIdle

NextFilter ==
    \/ FilterCall
    \/ \E i \in 0..MaxFilterN : FilterFlag(i)
    \/ FilterPack
    \/ PackCall
    \/ \E i \in 0..MaxFilterN : PackCount(i)
    \/ PackScan
    \/ \E i \in 0..MaxFilterN : PackWrite(i)
    \/ PackReturn

SpecFilter == InitFilter /\ [][NextFilter]_vars

-----------------------------------------------------------------------------
(* scan and pack over an empty range [s, s) of an array of at most MaxEmptyLen
   elements, intT signed or unsigned: lines 303-316, 373-402 *)

InitEmptyScan ==
    /\ fn = "scan"
    /\ \E f \in Combiners : \E len \in 0..MaxEmptyLen : \E k \in 0..len :
          /\ arg \in [s : {k}, e : {k}, f : {f}, zero : Zeros(f),
                       inclusive : BOOLEAN, back : BOOLEAN, inplace : {FALSE},
                       ix : IndexTypes]
          /\ In \in Inputs(f, len)
          /\ Out = Array(len, LAMBDA i : Undef(f))
    /\ Fl = << >>

InitEmptyPack ==
    /\ fn = "pack"
    /\ \E len \in 0..MaxEmptyLen : \E k \in 0..len :
          /\ Fl \in [0..(len - 1) -> {0, 1}]
          /\ arg \in [s : {k}, e : {k}, outNull : BOOLEAN, flAddr : {0, 1},
                       ix : IndexTypes]
          /\ In = Array(len, LAMBDA i : 10 + i)
          /\ Out = IF arg.outNull THEN << >> ELSE Array(len, LAMBDA i : Undef("add"))

InitEmpty ==
    /\ phase = "call"
    /\ (InitEmptyScan \/ InitEmptyPack)
    /\ Sums = << >>
    /\ pending = {} /\ ret = << >> /\ wlog = {} /\ rlog = {}
    /\ AtomIdle /\ cas = CasIdle /\ alloc = AllocIdle /\ rec = RecIdle /\ RemIdle

NextEmpty ==
    \/ ScanCall
    \/ \E i \in 0..MaxN : ScanFold(i)
    \/ ScanSums
    \/ \E i \in 0..MaxN : ScanWrite(i)
    \/ ScanReturn
    \/ PackCall
    \/ \E i \in 0..MaxN : PackCount(i)
    \/ PackScan
    \/ \E i \in 0..MaxN : PackWrite(i)
    \/ PackReturn

SpecEmpty == InitEmpty /\ [][NextEmpty]_vars

-----------------------------------------------------------------------------
(* The calls of scan and the calls of pack in one specification *)

InitBlocked == InitScan \/ InitPack

NextBlocked ==
    \/ ScanCall
    \/ \E i \in 0..MaxN : ScanFold(i)
    \/ ScanSums
    \/ \E i \in 0..MaxN : ScanWrite(i)
    \/ ScanReturn
    \/ PackCall
    \/ \E i \in 0..LongN : PackCount(i)
    \/ PackScan
    \/ \E i \in 0..LongN : PackWrite(i)
    \/ PackReturn

SpecBlocked == InitBlocked /\ [][NextBlocked]_vars

-----------------------------------------------------------------------------
(* blocked_for(_i, _s, _e, _bsize, _body) on its own: the body records the
   iteration and the range it is given; ret is the set of the iterations run,
   wlog the indices each of them covers *)

\* long _ss = _s; long _ee = _e; long _n = _ee - _ss; long _l = nblocks(_n, _bsize);
BlockedForCall ==
    /\ fn = "blocked_for" /\ phase = "call"
    /\ pending' = 0..(nblocks(arg.e - arg.s, arg.bsize) - 1)
    /\ phase' = "loop"
    /\ UNCHANGED <<fn, arg, In, Out, Fl, Sums, ret, wlog, rlog>>
    /\ UNCHANGED <<atomVars, cas, alloc, rec, remVars>>

\* one iteration of the parallel_for:
\* long _s = _ss + _i * (_bsize); long _e = min(_s + (_bsize), _ee); _body
BlockedForIter(i) ==
    /\ fn = "blocked_for" /\ phase = "loop" /\ i \in pending
    /\ LET bs == BlockS(i, arg.s, arg.bsize)
           be == BlockE(i, arg.s, arg.e, arg.bsize)
       IN /\ ret' = ret \cup {<<i, bs, be>>}
          /\ wlog' = wlog \cup {<<i, j>> : j \in bs..(be - 1)}
    /\ pending' = pending \ {i}
    /\ UNCHANGED <<fn, arg, In, Out, Fl, Sums, phase, rlog>>
    /\ UNCHANGED <<atomVars, cas, alloc, rec, remVars>>

\* the join of the parallel_for
BlockedForJoin ==
    /\ fn = "blocked_for" /\ phase = "loop" /\ pending = {}
    /\ phase' = "returned"
    /\ UNCHANGED <<fn, arg, In, Out, Fl, Sums, pending, ret, wlog, rlog>>
    /\ UNCHANGED <<atomVars, cas, alloc, rec, remVars>>

InitBlockedFor ==
    /\ fn = "blocked_for" /\ phase = "call"
    /\ \E s \in 0..MaxStart : \E len \in 0..MaxN : \E bsize \in 1..MaxBsize :
          arg = [s |-> s, e |-> s + len, bsize |-> bsize]
    /\ In = << >> /\ Out = << >> /\ Fl = << >> /\ Sums = << >>
    /\ pending = {} /\ ret = {} /\ wlog = {} /\ rlog = {}
    /\ AtomIdle /\ cas = CasIdle /\ alloc = AllocIdle /\ rec = RecIdle /\ RemIdle

NextBlockedFor ==
    \/ BlockedForCall
    \/ \E i \in 0..MaxN : BlockedForIter(i)
    \/ BlockedForJoin

SpecBlockedFor == InitBlockedFor /\ [][NextBlockedFor]_vars

-----------------------------------------------------------------------------
(* The recursion of reduce, scan and pack: which activation calls which, on a
   range of what length. The control of the three functions depends on the
   length of the range only; rec.stack holds one frame per activation, with
   the place the activation is at: "call" (entered), "fold" (the first
   blocked_for ran), "wait" (in the recursive call), "write" (back from it). *)

\* the block size the function partitions its range with
BsizeOf(f) == IF f = "pack" THEN F_BSIZE ELSE SCAN_BSIZE

\* the block count up to which the function runs its serial pass
BaseOf(f) == IF f = "reduce" THEN ReduceBase ELSE IF f = "scan" THEN ScanBase ELSE PackBase

\* the function the blocked path calls: reduce calls reduce, scan calls scan,
\* pack calls plusScan, which is scan
CalleeOf(f) == IF f = "reduce" THEN "reduce" ELSE "scan"

\* the recursive call made on the range itself
RecLen_WholeRange(f, n) == n

\* the length of the range of the recursive call: l, the length of Sums
RecLen(f, n) == nblocks(n, BsizeOf(f))

RecTop == rec.stack[Len(rec.stack)]

\* the stack after the activation on top returns: its caller is back from the call
RecPop(st) ==
    LET rest == SubSeq(st, 1, Len(st) - 1) IN
      IF rest = << >> THEN rest ELSE [rest EXCEPT ![Len(rest)].at = "write"]

\* if (l <= base) return ...Serial(...): the serial pass, and the return
RecSerial ==
    /\ rec.stack # << >> /\ RecTop.at = "call"
    /\ nblocks(RecTop.n, BsizeOf(RecTop.fn)) <= BaseOf(RecTop.fn)
    /\ rec' = [rec EXCEPT !.stack = RecPop(rec.stack)]
    /\ UNCHANGED <<atomVars, cas, alloc, remVars, seqVars>>

\* Sums = newA(.., l); blocked_for(i, s, e, bsize, Sums[i] = ...)
RecFold ==
    /\ rec.stack # << >> /\ RecTop.at = "call"
    /\ nblocks(RecTop.n, BsizeOf(RecTop.fn)) > BaseOf(RecTop.fn)
    /\ rec' = [rec EXCEPT !.stack[Len(rec.stack)].at = "fold"]
    /\ UNCHANGED <<atomVars, cas, alloc, remVars, seqVars>>

\* reduce(0, l, f, getA(Sums)); scan(Sums, 0, l, ...); plusScan(Sums, Sums, l)
RecDescend ==
    /\ rec.stack # << >> /\ RecTop.at = "fold"
    /\ LET callee == [fn |-> CalleeOf(RecTop.fn), n |-> RecLen(RecTop.fn, RecTop.n),
                      at |-> "call"]
       IN rec' = [rec EXCEPT !.stack = Append([rec.stack EXCEPT ![Len(rec.stack)].at = "wait"],
                                              callee),
                             !.deepest = IF Len(rec.stack) > rec.deepest
                                           THEN Len(rec.stack) ELSE rec.deepest]
    /\ UNCHANGED <<atomVars, cas, alloc, remVars, seqVars>>

\* after the recursive call: the second blocked_for (scan, pack), free(Sums), return
RecFinish ==
    /\ rec.stack # << >> /\ RecTop.at = "write"
    /\ rec' = [rec EXCEPT !.stack = RecPop(rec.stack)]
    /\ UNCHANGED <<atomVars, cas, alloc, remVars, seqVars>>

InitRec ==
    /\ \E f \in {"reduce", "scan", "pack"} : \E n \in 1..MaxRecN :
          rec = [fn |-> f, n |-> n, stack |-> <<[fn |-> f, n |-> n, at |-> "call"]>>,
                 deepest |-> 0]
    /\ AtomIdle /\ cas = CasIdle /\ alloc = AllocIdle /\ RemIdle /\ SeqIdle

NextRec == RecSerial \/ RecFold \/ RecDescend \/ RecFinish

SpecRec == InitRec /\ [][NextRec]_vars

\* the thread that runs a call keeps running it until the call returns
SpecRecFair == SpecRec /\ WF_vars(NextRec)

RecReturned == rec.fn # "none" /\ rec.stack = << >>

-----------------------------------------------------------------------------
(* The calls of reduce, of scan and of pack in one specification *)

InitSeq == InitReduce \/ InitScan \/ InitPack

NextSeq ==
    \/ ReduceCall
    \/ \E i \in 0..MaxN : ReduceFold(i)
    \/ ReduceSums
    \/ ScanCall
    \/ \E i \in 0..MaxN : ScanFold(i)
    \/ ScanSums
    \/ \E i \in 0..MaxN : ScanWrite(i)
    \/ ScanReturn
    \/ PackCall
    \/ \E i \in 0..LongN : PackCount(i)
    \/ PackScan
    \/ \E i \in 0..LongN : PackWrite(i)
    \/ PackReturn

SpecSeq == InitSeq /\ [][NextSeq]_vars

\* the block count of the range of the running call
BlockCount == nblocks(arg.e - arg.s, IF fn = "pack" THEN F_BSIZE ELSE SCAN_BSIZE)

-----------------------------------------------------------------------------
(* Helpers of the claims *)

\* the elements G[i] of the true-flagged i in [lo, hi), in increasing index order
RECURSIVE Flagged(_, _, _, _)
Flagged(FlArr, G, lo, hi) ==
    IF lo >= hi THEN << >>
    ELSE (IF FlArr[lo] # 0 THEN <<G[lo]>> ELSE << >>) \o Flagged(FlArr, G, lo + 1, hi)

\* the array X in reverse
Rev(X) == [i \in DOMAIN X |-> X[ALen(X) - 1 - i]]

\* the sequential left-to-right fold of G[lo], ..., G[hi - 1] under f, seeded by acc
RECURSIVE FoldLeft(_, _, _, _, _)
FoldLeft(f, acc, G, lo, hi) ==
    IF lo >= hi THEN acc ELSE FoldLeft(f, F(f, acc, G[lo]), G, lo + 1, hi)

\* the sequential right-to-left fold of G[hi - 1], ..., G[lo] under f, seeded by acc
RECURSIVE FoldDown(_, _, _, _, _)
FoldDown(f, acc, G, hi, lo) ==
    IF hi <= lo THEN acc ELSE FoldDown(f, F(f, acc, G[hi - 1]), G, hi - 1, lo)

\* the block sums of the running scan, as its first blocked_for leaves them
ScanBlockSums == BlockSums(arg.s, arg.e, arg.f, In, SCAN_BSIZE)

RECURSIVE SetMin(_)
SetMin(S) ==
    LET x == CHOOSE y \in S : TRUE IN
      IF S = {x} THEN x
      ELSE LET rest == SetMin(S \ {x}) IN IF x < rest THEN x ELSE rest

AllDone == \A p \in Procs : pc[p] = "done"

RECURSIVE SumOver(_, _)
SumOver(f, S) ==
    IF S = {} THEN 0
    ELSE LET x == CHOOSE y \in S : TRUE IN f[x] + SumOver(f, S \ {x})

\* the indices of Out that block iteration i has written
WrittenBy(i) == {w[2] : w \in {x \in wlog : x[1] = i}}

\* the number of true flags of pack's block i
PackBlockCount(i) ==
    Len(Flagged(Fl, In, BlockS(i, arg.s, F_BSIZE), BlockE(i, arg.s, arg.e, F_BSIZE)))

\* the least k with bsize^k >= n: ceil(log_bsize n), n >= 1
CeilLog(bsize, n) == CHOOSE k \in 0..n : bsize ^ k >= n /\ (k = 0 \/ bsize ^ (k - 1) < n)

\* the least integer that is >= n / bsize, n >= 0
CeilDiv(n, bsize) == CHOOSE q \in 0..n : q * bsize >= n /\ (q = 0 \/ (q - 1) * bsize < n)

\* blocked_for has returned, and its iterations partition [s, e) into
\* ceil(n / bsize) contiguous, disjoint ranges of at most bsize indices
BlockedForReturned == fn = "blocked_for" /\ phase = "returned"

IsBlockPartition ==
    LET n == arg.e - arg.s
        B == arg.bsize
        l == CeilDiv(n, B)
    IN /\ nblocks(n, B) = l
       /\ Cardinality(ret) = l
       /\ {it[1] : it \in ret} = 0..(l - 1)
       /\ \A it \in ret :
             /\ it[2] = arg.s + it[1] * B
             /\ it[3] = Min2(arg.s + (it[1] + 1) * B, arg.e)
             /\ it[3] - it[2] <= B
             /\ WrittenBy(it[1]) = it[2]..(it[3] - 1)
       /\ \A it1, it2 \in ret : it2[1] = it1[1] + 1 => it2[2] = it1[3]
       /\ \A w1, w2 \in wlog : w1[2] = w2[2] => w1[1] = w2[1]
       /\ {w[2] : w \in wlog} = arg.s..(arg.e - 1)

-----------------------------------------------------------------------------
\* C1: once all N concurrent writeMin callers have returned, the stored value
\* equals min(v0, v1, ..., vN), under every interleaving of their reads and
\* compare-and-swaps.
C1_WriteMinFinal ==
    AllDone => mem_a = SetMin({v0} \cup {b[p] : p \in Procs})

\* all callers returned, at least two compare-and-swaps succeeded and one failed
\* caller had to retry: the proposals raced
C1_Witness ==
    /\ AllDone
    /\ Cardinality({p \in Procs : r[p]}) >= 2
    /\ \E p \in Procs : fails[p] > 0
    /\ mem_a = SetMin({v0} \cup {b[p] : p \in Procs})

-----------------------------------------------------------------------------
\* C2: after remDuplicates returns (keys in [0,n) or the sentinel, flags
\* all-sentinel on entry), under every interleaving of the iterations inside
\* phase 1 and inside phase 2: for every key that appeared in some entry exactly
\* one entry still holds that key, every other entry that held it now holds the
\* sentinel, and every flags slot is the sentinel again.
C2_RemDuplicates ==
    RemReturned =>
      /\ \A k \in 0..(NKeys - 1) :
            (\E i \in Entries : keys0[i] = k) =>
               /\ Cardinality({i \in Entries : keys[i] = k}) = 1
               /\ \A i \in Entries : keys0[i] = k => keys[i] \in {k, UINT_E_MAX}
               /\ \A i \in Entries : keys[i] = k => keys0[i] = k
      /\ \A k \in 0..(NKeys - 1) : flags[k] = UINT_E_MAX

\* remDuplicates returned, a key was held by three entries that raced for its
\* slot (two compare-and-swaps failed), and the lowest entry did not survive
C2_Witness ==
    /\ RemReturned
    /\ \E k \in 0..(NKeys - 1) :
          /\ Cardinality({i \in Entries : keys0[i] = k}) >= 3
          /\ Cardinality({j \in DOMAIN flagLog : flagLog[j].key = k /\ ~flagLog[j].ok}) >= 2
          /\ keys[0] = UINT_E_MAX /\ keys0[0] = k

-----------------------------------------------------------------------------
\* C3: for every input A of length n, associative combiner f and zero z, the
\* exclusive forward scan writes Out[i] = fold(f, z, A[0..i)) for every i in
\* [0,n) and returns fold(f, z, A[0..n)), in the serial base case and in the
\* blocked case, in whatever order the parallel block iterations run.
C3_ExclusiveScan ==
    (ScanReturned /\ ~arg.inclusive /\ ~arg.back) =>
       /\ \A i \in 0..(arg.e - 1) : Out[i] = FoldLeft(arg.f, arg.zero, In, 0, i)
       /\ ret = FoldLeft(arg.f, arg.zero, In, 0, arg.e)

\* an exclusive forward scan returned from the blocked case, seeded by a zero
\* that is not the identity
C3_Witness ==
    /\ ScanReturned /\ ~arg.inclusive /\ ~arg.back
    /\ ScanBlocked
    /\ arg.f = "cat" /\ arg.zero = <<3>>
    /\ In[0] # In[1]
    /\ Out[arg.e - 1] = FoldLeft(arg.f, arg.zero, In, 0, arg.e - 1)

\* C4: for every input A, associative combiner f and zero z, the inclusive
\* forward scan (scanI) writes Out[i] = fold(f, z, A[0..i]) for every i and
\* returns the combination over the whole range, the total the exclusive scan
\* returns, in the serial base case and in the blocked case.
C4_InclusiveScan ==
    (ScanReturned /\ arg.inclusive /\ ~arg.back) =>
       /\ \A i \in 0..(arg.e - 1) : Out[i] = FoldLeft(arg.f, arg.zero, In, 0, i + 1)
       /\ ret = FoldLeft(arg.f, arg.zero, In, 0, arg.e)
       /\ ret = scan(Out, 0, arg.e, arg.f, In, FALSE, arg.zero, FALSE, FALSE).r

\* an inclusive forward scan returned from the blocked case
C4_Witness ==
    /\ ScanReturned /\ arg.inclusive /\ ~arg.back
    /\ ScanBlocked
    /\ arg.f = "cat" /\ arg.zero = <<3>>
    /\ In[0] # In[1]
    /\ Out[arg.e - 1] = ret

\* C5: for every input A, zero z and associative combiner f (commutativity not
\* required), scanBack over A produces the same output array and the same total
\* as scan over the reverse of A with the output reversed back, in the serial
\* base case and when the range is decomposed into more than two blocks.
C5_ScanBackMirrors ==
    (ScanReturned /\ ~arg.inclusive /\ arg.back) =>
       LET fwd == scan(Out, 0, arg.e, arg.f, Rev(In), FALSE, arg.zero, FALSE, FALSE) IN
         /\ Out = Rev(fwd.Out)
         /\ ret = fwd.r

-----------------------------------------------------------------------------
\* C6: for every non-empty array A and associative combiner f (commutativity not
\* required), reduce(A, f) equals the sequential left-to-right fold of A under f
\* seeded by A[0], regardless of the block size and of the recursion depth.
C6_ReduceIsFold ==
    (fn = "reduce" /\ phase = "returned") =>
       ret = FoldLeft(arg.f, In[0], In, 1, arg.e)

\* reduce returned from the blocked case, over blocks sums that were themselves
\* split into blocks, of an array a commutative combiner would fold differently
C6_Witness ==
    /\ fn = "reduce" /\ phase = "returned"
    /\ arg.f = "cat"
    /\ nblocks(nblocks(arg.e, SCAN_BSIZE), SCAN_BSIZE) > 1
    /\ In[0] # In[1] /\ In[1] # In[2]
    /\ ret = FoldLeft(arg.f, In[0], In, 1, arg.e)

-----------------------------------------------------------------------------
\* C7: for every flags array Fl and range [s,e), pack returns a sequence whose
\* length is the number of true flags in [s,e) and whose contents are exactly
\* f(i) for the true-flagged i in increasing index order, in the serial and in
\* the blocked case, whichever block writes first; the length the counting pass
\* returns equals the number of elements the writing pass writes.
C7_Pack ==
    (fn = "pack" /\ phase = "returned") =>
       LET want == Flagged(Fl, In, arg.s, arg.e) IN
         /\ ret = Len(want)
         /\ \A k \in 0..(ret - 1) : Out[k] = want[k + 1]
         /\ \A k \in DOMAIN Out : k >= ret => Out[k] = Undef("add")
         /\ {w[2] : w \in wlog} = 0..(ret - 1)
         /\ Cardinality(wlog) = ret

\* pack returned from the blocked case with an array it allocated, every block
\* holding a true flag and a false one among its flags
C7_Witness ==
    /\ fn = "pack" /\ phase = "returned"
    /\ PackBlocked /\ arg.outNull /\ arg.s = 1
    /\ ret >= 3 /\ ret < arg.e - arg.s
    /\ Fl[arg.s] = 0 /\ Fl[arg.e - 1] = 1
    /\ ALen(Out) = ret

\* C8: for every input In of length n and predicate p, filter(In, Out, n, p)
\* returns the count and writes the output that pack(In, Out, Fl, n) returns
\* and writes when run with Fl[i] = p(In[i]) for every i in [0,n).
C8_FilterIsPack ==
    (fn = "filter" /\ phase = "returned") =>
       LET PFl == Array(arg.e, LAMBDA i : IF P(arg.p, In[i]) # 0 THEN 1 ELSE 0)
           res == pack(Array(arg.e, LAMBDA i : Undef("add")), FALSE, PFl, 0, arg.e, In, 0)
       IN /\ ret = res.n
          /\ Out = res.Out

\* filter returned from the blocked case of pack, the predicate having returned
\* 2 for an element it kept and 0 for one it dropped
C8_Witness ==
    /\ fn = "filter" /\ phase = "returned"
    /\ PackBlocked
    /\ arg.p = "rem3"
    /\ \E i \in DOMAIN In : In[i] = 2 /\ Fl[i] = 1
    /\ \E i \in DOMAIN In : In[i] = UINT_E_MAX /\ Fl[i] = 0
    /\ ret > 0 /\ ret < arg.e

-----------------------------------------------------------------------------
\* C9: once all N concurrent writeAdd / write_add / fetch_and_add callers have
\* returned, the stored value is v0 + b1 + ... + bN; each fetch_and_add returns the value the word held immediately
\* before its own successful compare-and-swap; and when every bi = 1 the values
\* returned are exactly v0, v0+1, ..., v0+N-1, each returned once.
C9_AddFinal ==
    AllDone =>
      /\ mem_a = v0 + SumOver(b, Procs)
      /\ \A p \in Procs : op[p] = "fetch_and_add" => r[p] = prior[p]
      /\ ((\A p \in Procs : b[p] = 1 /\ op[p] = "fetch_and_add") =>
            /\ {r[p] : p \in Procs} = {v0 + k : k \in 0..(NProcs - 1)}
            /\ \A p \in Procs : \A q \in Procs : r[p] = r[q] => p = q)

\* all fetch_and_add callers of 1 returned, one of them after a failed
\* compare-and-swap
C9_Witness ==
    /\ AllDone
    /\ \A p \in Procs : b[p] = 1 /\ op[p] = "fetch_and_add"
    /\ \E p \in Procs : fails[p] > 0
    /\ mem_a = v0 + NProcs

-----------------------------------------------------------------------------
\* C11: over an empty range (s = e) scan returns the zero it was given and
\* writes no element of Out, pack returns a sequence of length 0 and writes no
\* element of the destination, and neither reads the accessor or the flags at
\* any index.
C11_EmptyRange ==
    (fn \in {"scan", "pack"} /\ phase = "returned" /\ arg.s = arg.e) =>
       /\ wlog = {}
       /\ rlog = {}
       /\ fn = "scan" => ret = arg.zero
       /\ fn = "pack" => ret = 0

\* what the code does over an empty range when intT is signed: nblocks(0) is 1
\* and the serial pass runs no iteration
C11_EmptySigned ==
    (fn \in {"scan", "pack"} /\ phase = "returned" /\ arg.s = arg.e
        /\ arg.ix = "signed") =>
       /\ wlog = {}
       /\ rlog = {}
       /\ fn = "scan" => ret = arg.zero /\ Out = Array(ALen(In), LAMBDA i : Undef(arg.f))
       /\ fn = "pack" => ret = 0

-----------------------------------------------------------------------------
\* C12: for every element count n and element size, the byte size
\* new_array_no_init requests is a multiple of 64 and at least n * sizeof(E),
\* the pointer returned is aligned to 64, and with the touch option on every
\* byte index written is below that byte size.
C12_AllocSize ==
    alloc.at = "returned" =>
       /\ alloc.bytes % line_size = 0
       /\ alloc.bytes >= alloc.n * alloc.size
       /\ alloc.r % line_size = 0
       /\ \A i \in alloc.touched : i < alloc.bytes

\* what the code computes: when n * sizeof(E) + 64 fits size_t, the least
\* multiple of 64 above n * sizeof(E), a whole line more than n * sizeof(E)
\* when that is a multiple of 64 itself
C12_AllocSizeInRange ==
    (alloc.at = "returned" /\ alloc.n * alloc.size + line_size < SizeMod) =>
       /\ alloc.bytes = ((alloc.n * alloc.size) \div line_size + 1) * line_size
       /\ alloc.bytes > alloc.n * alloc.size
       /\ alloc.bytes <= alloc.n * alloc.size + line_size
       /\ alloc.r % line_size = 0 /\ alloc.r # 0
       /\ alloc.touched = IF alloc.touch
                            THEN {i \in 0..(alloc.bytes - 1) : i % TouchStride = 0}
                            ELSE {}

-----------------------------------------------------------------------------
\* C13 as stated: in every state where some caller is still in its retry loop,
\* some caller's compare-and-swap succeeds later on.
C13_SomeAttemptSucceeds ==
    \A k \in 0..NProcs :
       ((\E p \in Procs : pc[p] = "cas") /\ NSucc = k) ~> (NSucc > k)

\* C13, amended: with finitely many callers each running one writeMin, writeAdd
\* or fetch_and_add on the same word, every compare-and-swap that fails was
\* preceded, since the caller's load, by a successful compare-and-swap of
\* another caller, so a caller fails at most N - 1 times; from every state
\* every caller eventually returns (a writeMin caller by a successful
\* compare-and-swap or by loading a value that is already <= b); and for
\* writeAdd and fetch_and_add, from every state where some caller is in its
\* retry loop the compare-and-swap of every caller eventually succeeds.
C13_LockFree ==
    /\ [][\A p \in Procs : fails'[p] > fails[p] => stale[p]]_vars
    /\ [](\A p \in Procs : fails[p] <= NProcs - 1)
    /\ (~AllDone) ~> AllDone
    /\ (\E p \in Procs : pc[p] = "cas" /\ op[p] \in AddOps)
          ~> (\A p \in Procs : Succeeded(p))

\* a caller has returned after N - 1 failed compare-and-swaps, each behind the
\* success of another caller
C13_Witness ==
    /\ AllDone
    /\ \E p \in Procs : fails[p] = NProcs - 1 /\ Succeeded(p)

-----------------------------------------------------------------------------
\* C14: during the parallel write phase of scan and of pack no destination
\* index is written by two different block iterations: scan's block i writes
\* only Out[j] for j inside its own block bounds, pack's block i writes only
\* Out[offset_i .. offset_i + count_i), ranges that are pairwise disjoint and
\* together exactly [0, total); and each block-fold iteration writes only its
\* own Sums[i].
C14_WritesInv ==
    /\ \A w1 \in wlog : \A w2 \in wlog : w1[2] = w2[2] => w1[1] = w2[1]
    /\ (fn = "scan" /\ phase \in {"write", "returned"} /\ ScanBlocked) =>
          \A w \in wlog :
             /\ BlockS(w[1], arg.s, SCAN_BSIZE) <= w[2]
             /\ w[2] < BlockE(w[1], arg.s, arg.e, SCAN_BSIZE)
    /\ (fn = "pack" /\ phase = "write") =>
          /\ \A i \in DOMAIN Sums :
                WrittenBy(i) = IF i \in pending THEN {}
                               ELSE Sums[i]..(Sums[i] + PackBlockCount(i) - 1)
          /\ \A i \in DOMAIN Sums : \A j \in DOMAIN Sums :
                i < j => Sums[i] + PackBlockCount(i) <= Sums[j]
          /\ UNION {Sums[i]..(Sums[i] + PackBlockCount(i) - 1) : i \in DOMAIN Sums}
                = 0..(ret - 1)

C14_DisjointWrites ==
    /\ []C14_WritesInv
    /\ [][(phase = "fold" /\ phase' = "fold") =>
            \E i \in pending :
               /\ pending' = pending \ {i}
               /\ \A k \in DOMAIN Sums : k # i => Sums'[k] = Sums[k]]_vars
    /\ [][(phase = "write" /\ phase' = "write" /\ fn = "scan") =>
            \E i \in pending :
               /\ pending' = pending \ {i}
               /\ \A j \in DOMAIN Out :
                     Out'[j] # Out[j] =>
                        /\ BlockS(i, arg.s, SCAN_BSIZE) <= j
                        /\ j < BlockE(i, arg.s, arg.e, SCAN_BSIZE)]_vars

\* pack has written its output from four blocks or more, one of them without a
\* true flag, and has not returned yet
C14_Witness ==
    /\ fn = "pack" /\ phase = "write" /\ pending = {}
    /\ Cardinality({w[1] : w \in wlog}) >= 4
    /\ \E i \in DOMAIN Sums : PackBlockCount(i) = 0
    /\ \E i \in DOMAIN Sums : PackBlockCount(i) >= 2

-----------------------------------------------------------------------------
\* C15: in remDuplicates, for every key k held by at least one entry, exactly
\* one compare-and-swap on flags[k] succeeds in phase 1, and it is the first
\* compare-and-swap executed on that slot; the entry that survives phase 2 with
\* key k is the entry that issued it, whichever index it has.
C15_FirstCASWins ==
    /\ \A j \in DOMAIN flagLog :
          flagLog[j].ok <=> (\A j2 \in DOMAIN flagLog :
                               flagLog[j2].key = flagLog[j].key => j <= j2)
    /\ \A i \in Entries :
          (ipc[i] \notin {"p1", "p1cas"} /\ keys0[i] # UINT_E_MAX) =>
             \E j \in DOMAIN flagLog : flagLog[j].key = keys0[i] /\ flagLog[j].ok
    /\ RemReturned =>
          \A i \in Entries :
             keys0[i] # UINT_E_MAX =>
                (keys[i] = keys0[i]
                   <=> \E j \in DOMAIN flagLog : flagLog[j].ok /\ flagLog[j].i = i)

\* three entries held one key, the compare-and-swap of the highest one came
\* first, those of the other two failed, and the highest entry alone survived
C15_Witness ==
    /\ RemReturned
    /\ m = 3
    /\ \A i \in Entries : keys0[i] = 0
    /\ Len(flagLog) = 3
    /\ flagLog[1].i = 2
    /\ keys[2] = 0 /\ keys[0] = UINT_E_MAX /\ keys[1] = UINT_E_MAX

\* entry i is the only survivor among three entries holding one key
C15_Survivor(i) ==
    /\ RemReturned
    /\ m = 3
    /\ \A j \in Entries : keys0[j] = 0
    /\ \A j \in Entries : keys[j] = (IF j = i THEN 0 ELSE UINT_E_MAX)

-----------------------------------------------------------------------------
\* C16 as stated: the call falls back to the serial pass exactly when the block
\* count of the range is at most 1 for reduce and for scan, and at most 2 for
\* pack; for larger block counts the blocked path is taken.
C16_BaseCasesAsStated ==
    [][phase = "call" =>
         LET base == IF fn = "pack" THEN 2 ELSE 1 IN
           /\ phase' = "returned" <=> BlockCount <= base
           /\ phase' = "fold" <=> BlockCount > base]_vars

\* C16, amended: the call falls back to the serial pass exactly when the block
\* count of the range is at most 1 for reduce and for pack, and at most 2 for
\* scan; for larger block counts the blocked path is taken.
C16_BaseCases ==
    [][phase = "call" =>
         LET base == IF fn = "scan" THEN 2 ELSE 1 IN
           /\ phase' = "returned" <=> BlockCount <= base
           /\ phase' = "fold" <=> BlockCount > base]_vars

\* a scan over two blocks has returned from the serial pass: no block sums
\* were computed, and every element was written by the one pass
C16_Witness ==
    /\ fn = "scan" /\ phase = "returned"
    /\ BlockCount = 2
    /\ rlog = ReadsG(arg.s, arg.e)
    /\ \A w \in wlog : w[1] = 0
    /\ Cardinality(wlog) = arg.e - arg.s

\* a pack over two blocks is in the fold loop of the blocked path
C16_PackBlockedAtTwo ==
    fn = "pack" /\ phase = "fold" /\ BlockCount = 2

-----------------------------------------------------------------------------
\* C17 as stated: in the blocked case of scan, after the block sums are scanned,
\* Sums[i] is the exclusive forward prefix of the block sums, the fold of zero
\* and the sums of the blocks before i, whatever the inclusive and back
\* arguments of the outer call.
C17_SumsForward ==
    (fn = "scan" /\ phase = "write") =>
       \A i \in DOMAIN Sums : Sums[i] = FoldLeft(arg.f, arg.zero, ScanBlockSums, 0, i)

\* C17, amended: in the blocked case of scan the block sums are scanned
\* exclusive, whatever the inclusive argument of the outer call, and in the
\* direction of the outer call: forward, Sums[i] is the fold of zero and the
\* sums of the blocks before i; backward, Sums is what the exclusive backward
\* scan of the block sums leaves, which is the fold of zero and the sums of the
\* blocks after i, from the last one down, when that scan is serial.
C17_SumsExclusiveOuterDirection ==
    (fn = "scan" /\ phase = "write") =>
       LET BS == ScanBlockSums
           l == ALen(BS)
       IN /\ ALen(Sums) = l
          /\ Sums = scan(BS, 0, l, arg.f, BS, TRUE, arg.zero, FALSE, arg.back).Out
          /\ ~arg.back =>
                \A i \in 0..(l - 1) : Sums[i] = FoldLeft(arg.f, arg.zero, BS, 0, i)
          /\ (arg.back /\ nblocks(l, SCAN_BSIZE) <= ScanBase) =>
                \A i \in 0..(l - 1) : Sums[i] = FoldDown(arg.f, arg.zero, BS, l, i + 1)

\* the block sums of an inclusive backward scan have been scanned: the last
\* block's prefix is the zero, the first block's prefix holds the sums of all
\* the blocks after it
C17_Witness ==
    /\ fn = "scan" /\ phase = "write"
    /\ arg.inclusive /\ arg.back
    /\ arg.f = "cat" /\ arg.zero = <<3>>
    /\ ALen(Sums) >= 3
    /\ Sums[ALen(Sums) - 1] = arg.zero
    /\ Sums[0] = FoldDown(arg.f, arg.zero, ScanBlockSums, ALen(Sums), 1)
    /\ Sums[0] # FoldLeft(arg.f, arg.zero, ScanBlockSums, 0, 0)

-----------------------------------------------------------------------------
\* C18: for every range [s,e) of length n >= 0 and block size B, blocked_for
\* runs ceil(n / B) iterations whose ranges [s + i*B, min(s + (i+1)*B, e)) are
\* contiguous, pairwise disjoint, of length at most B each, and cover exactly
\* [s,e); nblocks(n, B) equals ceil(n / B).
C18_BlockPartition ==
    BlockedForReturned => IsBlockPartition

\* the same for the ranges with at least one element
C18_NonEmptyRange ==
    (BlockedForReturned /\ arg.e - arg.s >= 1) => IsBlockPartition

\* blocked_for returned from a range whose last block is short
C18_ShortLastBlock ==
    /\ BlockedForReturned
    /\ arg.s > 0 /\ arg.bsize = 2 /\ arg.e - arg.s = 5
    /\ <<2, arg.s + 4, arg.e>> \in ret
    /\ IsBlockPartition

-----------------------------------------------------------------------------
\* C19: for every range of at least one element, reduce, scan and pack
\* terminate: every recursive call is made on a range (the block sums) strictly
\* shorter than its caller's, the recursion is never deeper than ceil(log_B n)
\* levels below the outer call, and the outer call eventually returns.
C19_Terminates ==
    /\ [](\A k \in 2..Len(rec.stack) : rec.stack[k].n < rec.stack[k - 1].n)
    /\ [](rec.fn # "none" =>
            /\ Len(rec.stack) - 1 <= CeilLog(SCAN_BSIZE, rec.n)
            /\ rec.deepest <= CeilLog(SCAN_BSIZE, rec.n))
    /\ <>RecReturned

\* a reduce whose recursion went three levels deep has returned
C19_Witness ==
    /\ RecReturned
    /\ rec.fn = "reduce"
    /\ rec.deepest >= 3
    /\ rec.deepest = CeilLog(SCAN_BSIZE, rec.n) - 1

\* a pack that called scan, which called itself, has returned
C19_PackDeep ==
    RecReturned /\ rec.fn = "pack" /\ rec.deepest >= 2

-----------------------------------------------------------------------------
\* C20: under every interleaving of concurrent writeMin callers on one word,
\* the stored value never increases from one state to the next; only a
\* caller's successful compare-and-swap changes it, and that caller returns
\* true at once; a call returns true if and only if its own compare-and-swap
\* stored b, strictly below the value it had read; a call that returns false
\* returns from a load of a value <= b and has written nothing.
C20_WriteMinReturn ==
    /\ [][mem_a' <= mem_a]_vars
    /\ [][mem_a' # mem_a =>
            \E p \in Procs : /\ pc[p] = "cas" /\ pc'[p] = "done" /\ r'[p] = TRUE
                             /\ mem_a' = b[p]
                             /\ \A q \in Procs \ {p} : pc'[q] = pc[q]]_vars
    /\ [][\A p \in Procs :
            (pc[p] # "done" /\ pc'[p] = "done") =>
               /\ r'[p] = TRUE <=>
                     (pc[p] = "cas" /\ mem_a = c[p] /\ b[p] < c[p] /\ mem_a' = b[p])
               /\ r'[p] = FALSE <=>
                     (pc[p] = "read" /\ c'[p] = mem_a /\ c'[p] <= b[p] /\ mem_a' = mem_a)]_vars
    /\ [](\A p \in Procs :
            pc[p] = "done" =>
               /\ r[p] = TRUE => prior[p] > b[p]
               /\ r[p] = FALSE => c[p] <= b[p])

\* one caller returned true, having lowered the word; another lost the race at
\* its compare-and-swap, loaded the word again and returned false
C20_Witness ==
    \E p, q \in Procs :
       /\ pc[p] = "done" /\ r[p] = TRUE /\ prior[p] > b[p]
       /\ pc[q] = "done" /\ r[q] = FALSE /\ fails[q] > 0 /\ c[q] <= b[q]
       /\ op[p] = "writeMin"
       /\ mem_a < v0

-----------------------------------------------------------------------------
\* C21: remDuplicates changes nothing outside the races it resolves, at every
\* state of the call: an entry whose key is the sentinel on entry is never
\* written (and stores nothing itself); an entry is written only by its own
\* iteration and only with the sentinel, so an entry that holds a key holds its
\* original key and was never written; a flags slot whose index is not the key
\* of any entry is never written; each non-sentinel flags[k], in phase 1 and
\* after it, holds the index of an entry whose key is k.
C21_RemFrame ==
    /\ \A i \in Entries :
          keys0[i] = UINT_E_MAX =>
             /\ keys[i] = UINT_E_MAX
             /\ \A w \in remW : w[3] # i /\ ~(w[1] = "keys" /\ w[2] = i)
    /\ \A w \in remW :
          w[1] = "keys" => (w[2] = w[3] /\ keys[w[2]] = UINT_E_MAX)
    /\ \A i \in Entries :
          keys[i] # UINT_E_MAX =>
             /\ keys[i] = keys0[i]
             /\ \A w \in remW : ~(w[1] = "keys" /\ w[2] = i)
    /\ \A k \in 0..(NKeys - 1) :
          (\A i \in Entries : keys0[i] # k) =>
             /\ flags[k] = UINT_E_MAX
             /\ \A w \in remW : ~(w[1] = "flags" /\ w[2] = k)
    /\ \A w \in remW : w[1] = "flags" => keys0[w[3]] = w[2]
    /\ \A k \in 0..(NKeys - 1) :
          flags[k] # UINT_E_MAX =>
             /\ flags[k] \in Entries
             /\ keys0[flags[k]] = k
             /\ keys[flags[k]] = k

\* remDuplicates returned from three entries, one of them the sentinel on
\* entry, the other two holding key 0 and no entry holding key 1: the later
\* entry won the slot and reset it, the earlier one was overwritten
C21_Witness ==
    /\ RemReturned
    /\ m = 3
    /\ keys0 = [i \in Entries |-> IF i = 1 THEN UINT_E_MAX ELSE 0]
    /\ keys = [i \in Entries |-> IF i = 2 THEN 0 ELSE UINT_E_MAX]
    /\ remW = {<<"flags", 0, 2>>, <<"keys", 0, 0>>}
    /\ \A k \in 0..(NKeys - 1) : flags[k] = UINT_E_MAX

\* in phase 1, a slot holds the index of an entry that holds the slot's key
C21_Phase1Claimed ==
    /\ m = 3
    /\ \E i \in Entries : ipc[i] \in {"p1", "p1cas"}
    /\ flags[1] = 2 /\ keys[2] = 1
    /\ flags[0] = UINT_E_MAX

-----------------------------------------------------------------------------
\* C22: in every mode (inclusive or exclusive, forward or backward), in the
\* serial and in the blocked case, a scan whose output array is its input array
\* leaves the array and returns the total that the same scan leaves and returns
\* with a separate output array; on the way, every slot of a block that has not
\* run yet still holds its input (no block has written it), and every slot of a
\* block that ran holds its final value (no later block reads or writes it).
C22_InPlaceScan ==
    fn = "scan" =>
       LET sep == scan(Array(arg.e, LAMBDA i : Undef(arg.f)), arg.s, arg.e, arg.f, In,
                       FALSE, arg.zero, arg.inclusive, arg.back)
           l == nblocks(arg.e - arg.s, SCAN_BSIZE)
       IN /\ ScanReturned => (Out = sep.Out /\ ret = sep.r)
          /\ (arg.inplace /\ phase \in {"call", "fold"}) => Out = In
          /\ phase = "write" =>
                \A i \in 0..(l - 1) :
                   \A j \in BlockS(i, arg.s, SCAN_BSIZE)..(BlockE(i, arg.s, arg.e, SCAN_BSIZE) - 1) :
                      IF i \in pending THEN arg.inplace => Out[j] = In[j]
                                       ELSE Out[j] = sep.Out[j]

\* an exclusive backward scan over its own input array returned from the
\* blocked case, its first block written last
C22_Witness ==
    /\ ScanReturned /\ ScanBlocked
    /\ arg.inplace /\ ~arg.inclusive /\ arg.back
    /\ arg.f = "cat" /\ arg.zero = <<3>>
    /\ In[0] # In[arg.e - 1]
    /\ Out # In
    /\ Out[arg.e - 1] = arg.zero
    /\ Out = scan(Array(arg.e, LAMBDA i : Undef(arg.f)), arg.s, arg.e, arg.f, In,
                  FALSE, arg.zero, FALSE, TRUE).Out

\* an inclusive forward scan over its own input array is between two blocks of
\* the second blocked_for: a later block is written, an earlier one is not
C22_MidWrite ==
    /\ fn = "scan" /\ phase = "write"
    /\ arg.inplace /\ arg.inclusive /\ ~arg.back
    /\ 0 \in pending /\ 2 \notin pending
    /\ Out[0] = In[0]
    /\ Out[arg.e - 1] # In[arg.e - 1]

-----------------------------------------------------------------------------
\* C10: CAS(ptr, old, new) on a 1-, 4- or 8-byte element stores new and returns
\* true if and only if the current value equals old, and otherwise returns
\* false leaving *ptr unchanged; on an element of any other width it aborts
\* without modifying *ptr.
C10_CASContract ==
    cas.at \in {"returned", "aborted"} =>
      IF cas.size \in {1, 4, 8}
        THEN /\ cas.at = "returned"
             /\ cas.ret = (cas.before = cas.oldv)
             /\ cas.ptr = IF cas.before = cas.oldv THEN cas.newv ELSE cas.before
        ELSE /\ cas.at = "aborted"
             /\ cas.ptr = cas.before

=============================================================================
